---- MODULE Spec2Model ----
(***************************************************************************)
(* A model of animation-lang: the bytecode builder (program.rs), the      *)
(* assembler with its constant folding (compiler/ast.rs), and the stack   *)
(* VM with its pixel strip (vm/mod.rs, vm/strip.rs, instructions.rs).     *)
(*                                                                         *)
(* A u32 is held as the pair <<high 16 bits, low 16 bits>>, so that every  *)
(* operation keeps its 32-bit width.  A usize (pc, instruction counts,    *)
(* lengths, jump targets) is a plain integer.  The value stack is a        *)
(* sequence whose LAST element is the top (Vec::push / Vec::pop).          *)
(***************************************************************************)
EXTENDS Integers, Sequences, FiniteSets, TLC

VARIABLES
    state,            \* the VMState driven by the host
    host,             \* the host loop: next() calls left to make, outcomes received
    state2,           \* a second VMState, started with the same arguments
    host2,            \* its host loop
    overflow_checks,  \* build profile: TRUE when arithmetic overflow panics (debug)
    unit,             \* the input of the compile-time function under check
    out               \* what that function returned

vars == <<state, host, state2, host2, overflow_checks, unit, out>>

(***************************************************************************)
(* Bounds of the model.                                                    *)
(***************************************************************************)
MaxLen == 2          \* strip lengths 0..MaxLen
MaxTake == 3         \* next() calls one host makes
MaxRunInstr == 128   \* loop iterations followed inside one run() call
MaxLimit == 3        \* instruction limits 0..MaxLimit (and none)

(***************************************************************************)
(* u32 arithmetic.                                                         *)
(***************************************************************************)
HALF == 65536
None == -1

u32(n) == <<n \div HALF, n % HALF>>
as_usize(w) == w[1] * HALF + w[2]
ZERO == u32(0)
ONE == u32(1)
U32_MAX == <<HALF - 1, HALF - 1>>

u32_lt(a, b) == a[1] < b[1] \/ (a[1] = b[1] /\ a[2] < b[2])
u32_le(a, b) == a = b \/ u32_lt(a, b)
u32_from_bool(b) == IF b THEN ONE ELSE ZERO

\* the four bytes of a word, least significant first, and back
le_bytes(w) == <<w[2] % 256, w[2] \div 256, w[1] % 256, w[1] \div 256>>
from_le_bytes(b0, b1, b2, b3) == <<b3 * 256 + b2, b1 * 256 + b0>>

overflowing_add(a, b) ==
    LET lo == a[2] + b[2]
        hi == a[1] + b[1] + (lo \div HALF)
    IN  [v |-> <<hi % HALF, lo % HALF>>, o |-> hi >= HALF]

overflowing_sub(a, b) ==
    LET borrow == IF a[2] < b[2] THEN 1 ELSE 0
        lo == a[2] - b[2] + HALF
        hi == a[1] - b[1] - borrow + HALF
    IN  [v |-> <<hi % HALF, lo % HALF>>, o |-> u32_lt(a, b)]

\* column k of the schoolbook product of two 4-byte numbers
mul_column(x, y, k) ==
    LET I == {i \in 0..3 : k - i \in 0..3}
        term(i) == x[i + 1] * y[k - i + 1]
    IN  (IF 0 \in I THEN term(0) ELSE 0) + (IF 1 \in I THEN term(1) ELSE 0)
      + (IF 2 \in I THEN term(2) ELSE 0) + (IF 3 \in I THEN term(3) ELSE 0)

RECURSIVE mul_bytes(_, _, _, _)
mul_bytes(x, y, k, carry) ==
    IF k > 6 THEN <<carry>>
    ELSE LET c == mul_column(x, y, k) + carry
         IN  <<c % 256>> \o mul_bytes(x, y, k + 1, c \div 256)

overflowing_mul(a, b) ==
    LET p == mul_bytes(le_bytes(a), le_bytes(b), 0, 0)
    IN  [v |-> from_le_bytes(p[1], p[2], p[3], p[4]),
         o |-> p[5] # 0 \/ p[6] # 0 \/ p[7] # 0 \/ p[8] # 0]

u32_bit(w, i) == IF i >= 16 THEN (w[1] \div (2 ^ (i - 16))) % 2 ELSE (w[2] \div (2 ^ i)) % 2
u32_set_bit(w, i) == IF i >= 16 THEN <<w[1] + 2 ^ (i - 16), w[2]>> ELSE <<w[1], w[2] + 2 ^ i>>
shl1(w) == <<(w[1] * 2 + w[2] \div 32768) % HALF, (w[2] * 2) % HALF>>
shr1(w) == <<w[1] \div 2, (w[2] \div 2) + (w[1] % 2) * 32768>>

\* restoring long division, one bit of the dividend per step: [q, r]
RECURSIVE div_rem(_, _, _, _, _)
div_rem(a, b, i, q, r) ==
    IF i < 0 THEN [q |-> q, r |-> r]
    ELSE LET r2 == <<shl1(r)[1], shl1(r)[2] + u32_bit(a, i)>>
             ge == r[1] >= 32768 \/ ~u32_lt(r2, b)
         IN  div_rem(a, b, i - 1,
                     IF ge THEN u32_set_bit(q, i) ELSE q,
                     IF ge THEN overflowing_sub(r2, b).v ELSE r2)

u32_div(a, b) == div_rem(a, b, 31, ZERO, ZERO).q
u32_rem(a, b) == div_rem(a, b, 31, ZERO, ZERO).r

RECURSIVE bit_and(_, _)
bit_and(x, y) ==
    IF x = 0 \/ y = 0 THEN 0
    ELSE (IF x % 2 = 1 /\ y % 2 = 1 THEN 1 ELSE 0) + 2 * bit_and(x \div 2, y \div 2)

RECURSIVE bit_or(_, _)
bit_or(x, y) ==
    IF x = 0 THEN y ELSE IF y = 0 THEN x
    ELSE (IF x % 2 = 1 \/ y % 2 = 1 THEN 1 ELSE 0) + 2 * bit_or(x \div 2, y \div 2)

RECURSIVE bit_xor(_, _)
bit_xor(x, y) ==
    IF x = 0 THEN y ELSE IF y = 0 THEN x
    ELSE (IF (x % 2) # (y % 2) THEN 1 ELSE 0) + 2 * bit_xor(x \div 2, y \div 2)

u32_and(a, b) == <<bit_and(a[1], b[1]), bit_and(a[2], b[2])>>
u32_or(a, b) == <<bit_or(a[1], b[1]), bit_or(a[2], b[2])>>
u32_xor(a, b) == <<bit_xor(a[1], b[1]), bit_xor(a[2], b[2])>>
u32_not(a) == <<HALF - 1 - a[1], HALF - 1 - a[2]>>
shl8(w) == <<(w[1] % 256) * 256 + w[2] \div 256, (w[2] % 256) * 256>>
shr8(w) == <<w[1] \div 256, (w[1] % 256) * 256 + w[2] \div 256>>

RECURSIVE shl_n(_, _)
shl_n(w, n) == IF n = 0 THEN w ELSE shl_n(shl1(w), n - 1)
RECURSIVE shr_n(_, _)
shr_n(w, n) == IF n = 0 THEN w ELSE shr_n(shr1(w), n - 1)

\* `lhs << rhs` and `lhs >> rhs`: the shift amount overflows from 32 on; the
\* unchecked operation shifts by the amount's low five bits
overflowing_shl(a, b) == [v |-> shl_n(a, b[2] % 32), o |-> ~u32_lt(b, u32(32))]
overflowing_shr(a, b) == [v |-> shr_n(a, b[2] % 32), o |-> ~u32_lt(b, u32(32))]

(***************************************************************************)
(* The instruction set (instructions.rs).                                  *)
(***************************************************************************)
Prefix ==
    [POP |-> 0, PUSHB |-> 16, PEEK |-> 32, PUSHI |-> 48, JMP |-> 64, JZ |-> 80,
     JNZ |-> 96, UNARY |-> 112, BINARY |-> 128, SWAP |-> 144, USER |-> 224,
     SPECIAL |-> 240]

Prefix_from(code) ==
    LET p == code - (code % 16)
    IN  IF p \in {0, 16, 32, 48, 64, 80, 96, 112, 128, 144, 224, 240} THEN p ELSE None

Special == [DUMP |-> 1, TWOBYTE |-> 2]
Special_from(code) == IF code \in {1, 2} THEN code ELSE None

Unary == [INC |-> 0, DEC |-> 1, NOT |-> 2, NEG |-> 3, SHL8 |-> 4, SHR8 |-> 5]
Unary_from(code) == IF code \in 0..5 THEN code ELSE None

Binary ==
    [ADD |-> 0, SUB |-> 1, DIV |-> 2, MUL |-> 3, MOD |-> 4, AND |-> 5, OR |-> 6,
     XOR |-> 7, GT |-> 8, GTE |-> 9, LT |-> 10, LTE |-> 11, EQ |-> 12, NEQ |-> 13,
     SHL |-> 14, SHR |-> 15]
Binary_from(code) == IF code \in 0..15 THEN code ELSE None

UserCommand ==
    [GET_LENGTH |-> 0, GET_WALL_TIME |-> 1, GET_PRECISE_TIME |-> 2, SET_PIXEL |-> 3,
     BLIT |-> 4, RANDOM_INT |-> 5, GET_PIXEL |-> 6]
UserCommand_from(code) == IF code \in 0..6 THEN code ELSE None

\* The result of an operation that may fail or abort the process.
Ok(v) == [t |-> "Ok", v |-> v]
Err(e) == [t |-> e, v |-> ZERO]
PANIC == [t |-> "Panic", v |-> ZERO]

\* `a + b`, `a - b`, `a * b`, `a << b` as the build compiles them: a panic on
\* overflow when overflow checks are on, the wrapped value otherwise
arith(r) == IF r.o /\ overflow_checks THEN PANIC ELSE Ok(r.v)

Unary_apply(op, lhs) ==
    CASE op = Unary.DEC -> arith(overflowing_sub(lhs, ONE))
      [] op = Unary.INC -> arith(overflowing_add(lhs, ONE))
      [] op = Unary.NEG -> PANIC
      [] op = Unary.NOT -> Ok(u32_not(lhs))
      [] op = Unary.SHL8 -> Ok(shl8(lhs))
      [] op = Unary.SHR8 -> Ok(shr8(lhs))

Binary_apply(op, lhs, rhs) ==
    CASE op = Binary.ADD -> arith(overflowing_add(lhs, rhs))
      [] op = Binary.SUB -> arith(overflowing_sub(lhs, rhs))
      [] op = Binary.MUL -> arith(overflowing_mul(lhs, rhs))
      [] op = Binary.DIV -> IF rhs = ZERO THEN Err("RuntimeError") ELSE Ok(u32_div(lhs, rhs))
      [] op = Binary.MOD -> IF rhs = ZERO THEN PANIC ELSE Ok(u32_rem(lhs, rhs))
      [] op = Binary.AND -> Ok(u32_and(lhs, rhs))
      [] op = Binary.OR -> Ok(u32_or(lhs, rhs))
      [] op = Binary.SHL -> arith(overflowing_shl(lhs, rhs))
      [] op = Binary.SHR -> arith(overflowing_shr(lhs, rhs))
      [] op = Binary.XOR -> Ok(u32_xor(lhs, rhs))
      [] op = Binary.EQ -> Ok(u32_from_bool(lhs = rhs))
      [] op = Binary.NEQ -> Ok(u32_from_bool(lhs # rhs))
      [] op = Binary.GT -> Ok(u32_from_bool(u32_lt(rhs, lhs)))
      [] op = Binary.GTE -> Ok(u32_from_bool(u32_le(rhs, lhs)))
      [] op = Binary.LT -> Ok(u32_from_bool(u32_lt(lhs, rhs)))
      [] op = Binary.LTE -> Ok(u32_from_bool(u32_le(lhs, rhs)))

(***************************************************************************)
(* The pixel strip (vm/strip.rs).                                          *)
(***************************************************************************)
ColorMiddleLayer_new(r, g, b, a) == [r |-> r, g |-> g, b |-> b, a |-> a]
RGBW_BLACK == ColorMiddleLayer_new(0, 0, 0, 0)

DummyLedStrip_new(length) == [i \in 1..length |-> RGBW_BLACK]
length(buf) == u32(Len(buf))

\* variant: set_pixel writes the colour to every pixel
set_pixel_fill(buf, idx, color) == [i \in 1..Len(buf) |-> color]

set_pixel(buf, idx, color) == [buf EXCEPT ![as_usize(idx) + 1] = color]
get_pixel(buf, idx) == buf[as_usize(idx) + 1]
\* variant: set_length makes a new dark buffer of the length asked for
set_length_fresh(buf, n) == [i \in 1..n |-> RGBW_BLACK]

\* DummyLedStrip::set_length: truncate, or extend with black
set_length(buf, n) ==
    IF n < Len(buf) THEN SubSeq(buf, 1, n)
    ELSE buf \o [i \in 1..(n - Len(buf)) |-> RGBW_BLACK]

\* variant: the exported frame is a fresh dark buffer, not the contents
export_dark(buf) == [i \in 1..Len(buf) |-> RGBW_BLACK]
export(buf) == buf

(***************************************************************************)
(* The VM (vm/mod.rs).  A VMState is a record; `status` is where the host  *)
(* stands with it: "idle" (no run() call in progress), "running" (inside   *)
(* the while loop of run()), "aborted" (the process panicked).  `outcome`  *)
(* is what the last run() call returned.                                   *)
(***************************************************************************)
Ended == [tag |-> "Ended", err |-> "", frame |-> <<>>]
Error(e) == [tag |-> "Error", err |-> e, frame |-> <<>>]
BLIT(iter) == [tag |-> "BLIT", err |-> "", frame |-> iter]
NoOutcome == [tag |-> "", err |-> "", frame |-> <<>>]

StateConfig(global, local) ==
    [global_instruction_limit |-> global, local_instruction_limit |-> local]

VM_new(len, deterministic) ==
    [strip |-> DummyLedStrip_new(len), deterministic |-> deterministic]

VMState_new(vm, program, config) ==
    [vm |-> vm, program |-> program, pc |-> 0, stack |-> <<>>,
     config |-> config, instruction_count |-> 0, deterministic_rng |-> 0,
     local_instruction_count |-> 0, status |-> "idle", outcome |-> NoOutcome]

VM_start(vm, program, config) == VMState_new(vm, program, config)

\* program.code[a], a counted from 0
code_at(s, a) == s.program[a + 1]
stack_push(s, v) == [s EXCEPT !.stack = Append(@, v)]
stack_last(s) == s.stack[Len(s.stack)]
stack_pop(s) == [s EXCEPT !.stack = SubSeq(@, 1, Len(@) - 1)]
return(s, outcome) == [s EXCEPT !.status = "idle", !.outcome = outcome]
panic(s) == [s EXCEPT !.status = "aborted"]

\* The stream of the ChaCha20 generator seeded with [0; 32], by position; the
\* model keeps of it that a draw depends on the position alone.
chacha_word(pos) == <<(pos * 40503 + 9973) % HALF, (pos * 25173 + 13849) % HALF>>
gen_range(pos, v) == u32_rem(chacha_word(pos), v)

RECURSIVE pushi(_, _)
pushi(s, postfix) ==
    IF postfix = 0 THEN s
    ELSE IF s.pc + 4 >= Len(s.program) THEN panic(s)
    ELSE pushi([s EXCEPT !.stack = Append(@, from_le_bytes(code_at(s, s.pc + 1),
                                                            code_at(s, s.pc + 2),
                                                            code_at(s, s.pc + 3),
                                                            code_at(s, s.pc + 4))),
                         !.pc = @ + 4],
               postfix - 1)

RECURSIVE pushb_bytes(_, _)
pushb_bytes(s, n) ==
    IF n = 0 THEN s
    ELSE IF s.pc + 1 >= Len(s.program) THEN panic(s)
    ELSE pushb_bytes([s EXCEPT !.pc = @ + 1,
                               !.stack = Append(@, u32(code_at(s, s.pc + 1)))],
                     n - 1)

pushb(s, postfix) == IF postfix = 0 THEN stack_push(s, ZERO) ELSE pushb_bytes(s, postfix)

user_GET_LENGTH(s) == stack_push(s, length(s.vm.strip))

\* variant: the wall clock read whatever the mode
user_GET_WALL_TIME_host(s, clock) == stack_push(s, clock.wall)

user_GET_WALL_TIME(s, clock) ==
    IF s.vm.deterministic
    THEN stack_push(s, u32(s.instruction_count \div 10))
    ELSE stack_push(s, clock.wall)

\* variant: the precise time counted from the start of the run() call
user_GET_PRECISE_TIME_local(s, clock) ==
    IF s.vm.deterministic
    THEN stack_push(s, u32(s.local_instruction_count))
    ELSE stack_push(s, clock.precise)

user_GET_PRECISE_TIME(s, clock) ==
    IF s.vm.deterministic
    THEN stack_push(s, u32(s.instruction_count))
    ELSE stack_push(s, clock.precise)
\* variant: set_pixel stores the high byte of the colour word as well
user_SET_PIXEL_alpha(s) ==
    IF s.stack = <<>> THEN return(s, Error("StackUnderflow"))
    ELSE LET v == stack_last(s)
             s1 == stack_pop(s)
             b == le_bytes(v)
             color == ColorMiddleLayer_new(b[1], b[2], b[3], b[4])
         IN  IF s1.stack = <<>> THEN panic(s1)
             ELSE IF ~u32_lt(stack_last(s1), length(s1.vm.strip))
                  THEN return(s1, Error("RuntimeError"))
                  ELSE [s1 EXCEPT !.vm.strip = set_pixel(@, stack_last(s1), color)]

user_SET_PIXEL(s) ==
    IF s.stack = <<>> THEN return(s, Error("StackUnderflow"))
    ELSE LET v == stack_last(s)
             s1 == stack_pop(s)
             b == le_bytes(v)
             color == ColorMiddleLayer_new(b[1], b[2], b[3], 0)
         IN  IF s1.stack = <<>> THEN panic(s1)
             ELSE IF ~u32_lt(stack_last(s1), length(s1.vm.strip))
                  THEN return(s1, Error("RuntimeError"))
                  ELSE [s1 EXCEPT !.vm.strip = set_pixel(@, stack_last(s1), color)]

\* variant: blit returns the frame and leaves pc on its own byte
user_BLIT_stay(s) == return(s, BLIT(export(s.vm.strip)))
user_BLIT(s) == return([s EXCEPT !.pc = @ + 1], BLIT(export(s.vm.strip)))

\* variant: random_int unwraps the popped value without the emptiness check
user_RANDOM_INT_unwrap(s) ==
    IF s.stack = <<>> THEN panic(s)
    ELSE IF stack_last(s) = ZERO THEN panic(stack_pop(s))
    ELSE [stack_push(stack_pop(s), gen_range(s.deterministic_rng, stack_last(s)))
            EXCEPT !.deterministic_rng = @ + 1]

user_RANDOM_INT(s) ==
    IF s.stack = <<>> THEN return(s, Error("StackUnderflow"))
    ELSE LET v == stack_last(s)
         IN  IF v = ZERO THEN panic(stack_pop(s))
             ELSE [stack_push(stack_pop(s), gen_range(s.deterministic_rng, v))
                     EXCEPT !.deterministic_rng = @ + 1]

user_GET_PIXEL(s) ==
    IF s.stack = <<>> THEN return(s, Error("StackUnderflow"))
    ELSE LET v == stack_last(s)
             s1 == stack_pop(s)
         IN  IF ~u32_lt(v, length(s1.vm.strip)) THEN panic(s1)
             ELSE LET color == get_pixel(s1.vm.strip, v)
                  IN  stack_push(s1, from_le_bytes(v[2] % 256, color.r, color.g, color.b))

user(s, postfix, clock) ==
    LET u == UserCommand_from(postfix)
    IN  CASE u = None -> return(s, Error("UnknownInstruction"))
          [] u = UserCommand.GET_LENGTH -> user_GET_LENGTH(s)
          [] u = UserCommand.GET_WALL_TIME -> user_GET_WALL_TIME(s, clock)
          [] u = UserCommand.GET_PRECISE_TIME -> user_GET_PRECISE_TIME(s, clock)
          [] u = UserCommand.SET_PIXEL -> user_SET_PIXEL(s)
          [] u = UserCommand.BLIT -> user_BLIT(s)
          [] u = UserCommand.RANDOM_INT -> user_RANDOM_INT(s)
          [] u = UserCommand.GET_PIXEL -> user_GET_PIXEL(s)

\* Special::from yields DUMP or TWOBYTE only, so the SWAP arm of special() is
\* never taken.
special(s, postfix) ==
    LET sp == Special_from(postfix)
    IN  CASE sp = None -> return(s, Error("UnknownInstruction"))
          [] sp = Special.DUMP -> s
          [] sp = Special.TWOBYTE -> return(s, Error("UnknownInstruction"))

run_POP(s, postfix) ==
    IF ~(postfix <= Len(s.stack)) THEN panic(s)
    ELSE [s EXCEPT !.stack = SubSeq(@, 1, Len(@) - postfix)]

run_PEEK(s, postfix) ==
    IF ~(postfix < Len(s.stack)) THEN panic(s)
    ELSE stack_push(s, s.stack[Len(s.stack) - postfix])

\* variant: the conditional jumps pop the value they test
run_jump_consume(s, i) ==
    IF s.pc + 2 >= Len(s.program) THEN panic(s)
    ELSE IF i = Prefix.JMP
    THEN [s EXCEPT !.pc = code_at(s, s.pc + 1) + code_at(s, s.pc + 2) * 256]
    ELSE IF s.stack = <<>> THEN return(s, Error("StackUnderflow"))
    ELSE [stack_pop(s) EXCEPT !.pc =
             IF (stack_last(s) = ZERO) = (i = Prefix.JZ)
             THEN code_at(s, s.pc + 1) + code_at(s, s.pc + 2) * 256
             ELSE @ + 3]

run_jump(s, i) ==
    IF s.pc + 2 >= Len(s.program) THEN panic(s)
    ELSE LET target == code_at(s, s.pc + 1) + code_at(s, s.pc + 2) * 256
         IN  CASE i = Prefix.JMP -> [s EXCEPT !.pc = target]
               [] i = Prefix.JZ ->
                    IF s.stack = <<>> THEN return(s, Error("StackUnderflow"))
                    ELSE [s EXCEPT !.pc = IF stack_last(s) = ZERO THEN target ELSE @ + 3]
               [] i = Prefix.JNZ ->
                    IF s.stack = <<>> THEN return(s, Error("StackUnderflow"))
                    ELSE [s EXCEPT !.pc = IF stack_last(s) # ZERO THEN target ELSE @ + 3]

\* variant: the Err of Binary::apply pushed as the value 0
run_BINARY_push_error(s, postfix) ==
    IF Binary_from(postfix) = None THEN return(s, Error("UnknownInstruction"))
    ELSE IF Len(s.stack) < 2 THEN return(s, Error("StackUnderflow"))
    ELSE LET r == Binary_apply(Binary_from(postfix), stack_last(stack_pop(s)), stack_last(s))
         IN  CASE r.t = "Ok" -> stack_push(stack_pop(stack_pop(s)), r.v)
               [] r.t = "Panic" -> panic(stack_pop(stack_pop(s)))
               [] OTHER -> stack_push(stack_pop(stack_pop(s)), ZERO)

\* Binary::apply returns a Result; its Err ends the run() call as that error.
run_BINARY(s, postfix) ==
    LET op == Binary_from(postfix)
    IN  IF op = None THEN return(s, Error("UnknownInstruction"))
        ELSE IF Len(s.stack) < 2 THEN return(s, Error("StackUnderflow"))
        ELSE LET rhs == stack_last(s)
                 lhs == stack_last(stack_pop(s))
                 s2 == stack_pop(stack_pop(s))
                 r == Binary_apply(op, lhs, rhs)
             IN  CASE r.t = "Ok" -> stack_push(s2, r.v)
                   [] r.t = "Panic" -> panic(s2)
                   [] OTHER -> return(s2, Error(r.t))

run_UNARY(s, postfix) ==
    LET op == Unary_from(postfix)
    IN  IF op = None THEN return(s, Error("UnknownInstruction"))
        ELSE IF s.stack = <<>> THEN return(s, Error("StackUnderflow"))
        ELSE LET r == Unary_apply(op, stack_last(s))
             IN  IF r.t = "Ok" THEN stack_push(stack_pop(s), r.v)
                 ELSE panic(stack_pop(s))
\* variant: SWAP as the Special::SWAP arm of special() has it, the top two
\* exchanged whatever the postfix
special_SWAP(s, postfix) ==
    IF Len(s.stack) < 2 THEN return(s, Error("StackUnderflow"))
    ELSE stack_push(stack_push(stack_pop(stack_pop(s)), stack_last(s)),
                    stack_last(stack_pop(s)))

\* SWAP n: swap the top with the element at depth n.
run_SWAP(s, postfix) ==
    LET n == Len(s.stack)
    IN  IF ~(postfix < n) THEN return(s, Error("StackUnderflow"))
        ELSE [s EXCEPT !.stack = [@ EXCEPT ![n] = s.stack[n - postfix],
                                           ![n - postfix] = s.stack[n]]]

\* variant: the global limit compared with > instead of >=
GlobalLimitPassed(s) ==
    /\ s.config.global_instruction_limit # None
    /\ s.instruction_count > s.config.global_instruction_limit

GlobalLimitReached(s) ==
    /\ s.config.global_instruction_limit # None
    /\ s.instruction_count >= s.config.global_instruction_limit

LocalLimitReached(s) ==
    /\ s.config.local_instruction_limit # None
    /\ s.local_instruction_count >= s.config.local_instruction_limit

\* the match on the decoded prefix, and the `pc += 1` that follows every arm
\* that neither returned nor jumped
run_match(s, i, postfix, clock) ==
    LET advance(x) == IF x.status = "running" THEN [x EXCEPT !.pc = @ + 1] ELSE x
    IN  CASE i = Prefix.PUSHI -> advance(pushi(s, postfix))
          [] i = Prefix.PUSHB -> advance(pushb(s, postfix))
          [] i = Prefix.POP -> advance(run_POP(s, postfix))
          [] i = Prefix.PEEK -> advance(run_PEEK(s, postfix))
          [] i \in {Prefix.JMP, Prefix.JZ, Prefix.JNZ} -> run_jump(s, i)
          [] i = Prefix.BINARY -> advance(run_BINARY(s, postfix))
          [] i = Prefix.UNARY -> advance(run_UNARY(s, postfix))
          [] i = Prefix.SWAP -> advance(run_SWAP(s, postfix))
          [] i = Prefix.USER -> advance(user(s, postfix, clock))
          [] i = Prefix.SPECIAL -> advance(special(s, postfix))
\* variant: the iteration that finds the global limit reached counts as an
\* instruction
run_iteration_counting(s, clock) ==
    IF ~(s.pc < Len(s.program)) THEN return(s, Ended)
    ELSE IF GlobalLimitReached(s)
         THEN return([s EXCEPT !.instruction_count = @ + 1],
                     Error("GlobalInstructionLimitReached"))
    ELSE IF LocalLimitReached(s) THEN return(s, Error("LocalInstructionLimitReached"))
    ELSE IF Prefix_from(code_at(s, s.pc)) = None THEN return(s, Ended)
         ELSE run_match([s EXCEPT !.instruction_count = @ + 1,
                                  !.local_instruction_count = @ + 1],
                        Prefix_from(code_at(s, s.pc)), code_at(s, s.pc) % 16, clock)
\* variant: the call that finds pc past the end counts as an instruction
run_iteration_past(s, clock) ==
    IF ~(s.pc < Len(s.program))
    THEN return([s EXCEPT !.instruction_count = @ + 1], Ended)
    ELSE IF GlobalLimitReached(s) THEN return(s, Error("GlobalInstructionLimitReached"))
    ELSE IF LocalLimitReached(s) THEN return(s, Error("LocalInstructionLimitReached"))
    ELSE IF Prefix_from(code_at(s, s.pc)) = None THEN return(s, Ended)
         ELSE run_match([s EXCEPT !.instruction_count = @ + 1,
                                  !.local_instruction_count = @ + 1],
                        Prefix_from(code_at(s, s.pc)), code_at(s, s.pc) % 16, clock)

\* variant: a byte whose prefix does not decode is an error
run_iteration_unknown(s, clock) ==
    IF ~(s.pc < Len(s.program)) THEN return(s, Ended)
    ELSE IF GlobalLimitReached(s) THEN return(s, Error("GlobalInstructionLimitReached"))
    ELSE IF LocalLimitReached(s) THEN return(s, Error("LocalInstructionLimitReached"))
    ELSE IF Prefix_from(code_at(s, s.pc)) = None
         THEN return(s, Error("UnknownInstruction"))
         ELSE run_match([s EXCEPT !.instruction_count = @ + 1,
                                  !.local_instruction_count = @ + 1],
                        Prefix_from(code_at(s, s.pc)), code_at(s, s.pc) % 16, clock)

\* one iteration of the while loop of run()
run_iteration(s, clock) ==
    IF ~(s.pc < Len(s.program)) THEN return(s, Ended)
    ELSE IF GlobalLimitReached(s) THEN return(s, Error("GlobalInstructionLimitReached"))
    ELSE IF LocalLimitReached(s) THEN return(s, Error("LocalInstructionLimitReached"))
    ELSE LET ins == Prefix_from(code_at(s, s.pc))
         IN  IF ins = None THEN return(s, Ended)
             ELSE run_match([s EXCEPT !.instruction_count = @ + 1,
                                      !.local_instruction_count = @ + 1],
                            ins, code_at(s, s.pc) % 16, clock)

\* variant: the local count carried over from the previous run() call
run_enter_carry(s) == [s EXCEPT !.status = "running"]

\* entering run(): `let mut local_instruction_count = 0;`
run_enter(s) == [s EXCEPT !.local_instruction_count = 0, !.status = "running"]

(***************************************************************************)
(* The program builder (program.rs).  A Program is a record; `err` holds   *)
(* the SyntaxError a builder call returned ("" while every call returned   *)
(* Ok, "Panic" when the compiler aborted), and a call on a program with an *)
(* error does nothing: the `?` of the caller has already returned.         *)
(***************************************************************************)
POSTFIX_MAX == 15

Program_new == [code |-> <<>>, stack_size |-> 0, offset |-> 0, err |-> ""]
Program_from_binary(data) == [code |-> data, stack_size |-> 0, offset |-> 0, err |-> ""]
fail(self, e) == [self EXCEPT !.err = e]
write(self, buffer) == [self EXCEPT !.code = @ \o buffer]
current_pc(self) == self.offset + Len(self.code)

Program_pop(self, n) ==
    IF self.err # "" THEN self
    ELSE IF n > POSTFIX_MAX THEN fail(self, "PostfixLimit")
    ELSE write([self EXCEPT !.stack_size = @ - n], <<Prefix.POP + n>>)

leave_on_stack(self, n) ==
    IF self.err # "" THEN self ELSE [self EXCEPT !.stack_size = @ - n]

Program_peek(self, n) ==
    IF self.err # "" THEN self
    ELSE IF n > POSTFIX_MAX THEN fail(self, "PostfixLimit")
    ELSE write([self EXCEPT !.stack_size = @ + 1], <<Prefix.PEEK + n>>)

\* variant: swap without the postfix limit
Program_swap_unchecked(self, n) ==
    IF self.err # "" THEN self ELSE write(self, <<Prefix.SWAP + n>>)

Program_swap(self, n) ==
    IF self.err # "" THEN self
    ELSE IF n > POSTFIX_MAX THEN fail(self, "PostfixLimit")
    ELSE write(self, <<Prefix.SWAP + n>>)

Program_unary(self, u) ==
    IF self.err # "" THEN self ELSE write(self, <<Prefix.UNARY + u>>)

Program_binary(self, u) ==
    IF self.err # "" THEN self
    ELSE write([self EXCEPT !.stack_size = @ - 1], <<Prefix.BINARY + u>>)

Program_special(self, u) ==
    IF self.err # "" THEN self
    ELSE IF u = Special.TWOBYTE THEN fail(self, "Panic")
    ELSE write(self, <<Prefix.SPECIAL + u>>)
\* variant: set_pixel counted as leaving the depth as it found it
user_stack_delta_flat(u) ==
    IF u \in {UserCommand.GET_LENGTH, UserCommand.GET_PRECISE_TIME,
              UserCommand.GET_WALL_TIME}
    THEN 1 ELSE 0

user_stack_delta(u) ==
    CASE u = UserCommand.GET_LENGTH -> 1
      [] u = UserCommand.GET_PRECISE_TIME -> 1
      [] u = UserCommand.GET_WALL_TIME -> 1
      [] u = UserCommand.BLIT -> 0
      [] u = UserCommand.SET_PIXEL -> -1
      [] u = UserCommand.RANDOM_INT -> 0
      [] u = UserCommand.GET_PIXEL -> 0

Program_user(self, u) ==
    IF self.err # "" THEN self
    ELSE write([self EXCEPT !.stack_size = @ + user_stack_delta(u)], <<Prefix.USER + u>>)
\* variant: push always emits the four-byte form
Program_push_wide(self, b) ==
    IF self.err # "" THEN self
    ELSE write([self EXCEPT !.stack_size = @ + 1], <<Prefix.PUSHI + 1>> \o le_bytes(b))

Program_push(self, b) ==
    IF self.err # "" THEN self
    ELSE LET p == [self EXCEPT !.stack_size = @ + 1]
         IN  IF b = ZERO THEN write(p, <<Prefix.PUSHB>>)
             ELSE IF u32_le(b, u32(255)) THEN write(p, <<Prefix.PUSHB + 1, b[2]>>)
             ELSE write(p, <<Prefix.PUSHI + 1>> \o le_bytes(b))

\* the two bytes of a jump target: `addr & 0xFF`, `(addr >> 8) & 0xFF`
address_bytes(addr) == <<addr % 256, (addr \div 256) % 256>>

\* variant: the offset of a fragment counted from its own emitter
fragment_relative(self, header) ==
    [code |-> <<>>, stack_size |-> 0, offset |-> header, err |-> ""]

\* The structured emitters take a callback that fills a fresh fragment.  Here
\* the caller makes the fragment (fragment(self, header)), runs the callback's
\* body on it, and hands the result to the emitter as `built`.
fragment(self, header) ==
    [code |-> <<>>, stack_size |-> 0, offset |-> current_pc(self) + header, err |-> ""]

skip(self, prefix, built) ==
    IF self.err # "" THEN self
    ELSE IF built.err # "" THEN fail(self, built.err)
    ELSE IF built.stack_size # 0 THEN fail(self, "FragmentCannotModifyStackSize")
    ELSE LET end_address == current_pc(self) + 3 + Len(built.code)
         IN  write(write(self, <<prefix>> \o address_bytes(end_address)), built.code)
\* variant: if_zero skips its fragment on zero, as if_not_zero does
if_zero_on_not_zero(self, built) == skip(self, Prefix.JZ, built)

if_zero(self, built) == skip(self, Prefix.JNZ, built)
if_not_zero(self, built) == skip(self, Prefix.JZ, built)

\* variant: the loop body emitted without the jump back to its start
repeat_forever_once(self, built) ==
    IF self.err # "" THEN self
    ELSE IF built.err # "" THEN fail(self, built.err)
    ELSE write(self, built.code)

repeat_forever(self, built) ==
    IF self.err # "" THEN self
    ELSE IF built.err # "" THEN fail(self, built.err)
    ELSE IF built.stack_size # 0 THEN fail(self, "FragmentCannotModifyStackSize")
    ELSE LET start == current_pc(self)
         IN  write(write(self, built.code), <<Prefix.JMP>> \o address_bytes(start))
\* variant: the counter tested after the body: `start: body; DEC; JNZ start`
repeat_test_last(self, built) ==
    IF self.err # "" THEN self
    ELSE IF built.err # "" THEN fail(self, built.err)
    ELSE write(write(write(self,
             built.code),
             <<Prefix.UNARY + Unary.DEC>>),
             <<Prefix.JNZ>> \o address_bytes(current_pc(self)))

\* variant: repeat without the check of the fragment's stack_size
repeat_unchecked(self, built) ==
    IF self.err # "" THEN self
    ELSE IF built.err # "" THEN fail(self, built.err)
    ELSE write(write(write(write(self,
             <<Prefix.JZ>> \o address_bytes(current_pc(self) + 3 + Len(built.code) + 1 + 3)),
             built.code),
             <<Prefix.UNARY + Unary.DEC>>),
             <<Prefix.JMP>> \o address_bytes(current_pc(self)))

repeat(self, built) ==
    IF self.err # "" THEN self
    ELSE IF built.err # "" THEN fail(self, built.err)
    ELSE IF built.stack_size # 0 THEN fail(self, "FragmentCannotModifyStackSize")
    ELSE LET start == current_pc(self)
             end == start + 3 + Len(built.code) + 1 + 3
         IN  write(write(write(write(self,
                 <<Prefix.JZ>> \o address_bytes(end)),
                 built.code),
                 <<Prefix.UNARY + Unary.DEC>>),
                 <<Prefix.JMP>> \o address_bytes(start))

\* impl fmt::Display for Prefix, Unary and Binary
Display(enum, v) ==
    CASE enum = "Prefix" ->
            (CASE v = Prefix.POP -> "POP"
               [] v = Prefix.PUSHB -> "PUSHB"
               [] v = Prefix.PEEK -> "PEEKB"
               [] v = Prefix.SWAP -> "SWAP"
               [] v = Prefix.PUSHI -> "PUSHI"
               [] v = Prefix.JMP -> "JMP"
               [] v = Prefix.JZ -> "JZ"
               [] v = Prefix.JNZ -> "JNZ"
               [] v = Prefix.UNARY -> "UNARY"
               [] v = Prefix.BINARY -> "BINARY"
               [] v = Prefix.USER -> "USER"
               [] v = Prefix.SPECIAL -> "SPECIAL")
      [] enum = "Unary" -> <<"INC", "DEC", "NOT", "NEG", "SHL8", "SHR8">>[v + 1]
      [] enum = "Binary" ->
            <<"ADD", "SUB", "DIV", "MUL", "MOD", "AND", "OR", "XOR", "GT", "GTE",
              "LT", "LTE", "EQ", "NEQ", "SHL", "SHR">>[v + 1]

\* One line of the Debug output of a Program, for the instruction at pc: the
\* address, the byte, the name of its prefix, then what the arm of its prefix
\* writes, as the numbers written (`operand`) and the words written (`text`).
\* `next` is the pc of the following line, None when the output ends here.
fmt_line(code, pc) ==
    LET byte == code[pc + 1]
        i == Prefix_from(byte)
        postfix == byte % 16
        line(operand, text, next) ==
            [pc |-> pc, byte |-> byte, name |-> Display("Prefix", i),
             operand |-> operand, text |-> text, next |-> next]
        bytes(n) ==
            IF n + pc + 1 > Len(code)
            THEN line(<<n>>, "(invalid, overruns code; size=)", None)
            ELSE line(SubSeq(code, pc + 2, pc + 1 + n), "", pc + n + 1)
    IN  CASE i = None ->
                [pc |-> pc, byte |-> byte, name |-> "Unknown instruction",
                 operand |-> <<>>, text |-> "", next |-> None]
          [] i = Prefix.PUSHI -> bytes(postfix * 4)
          [] i = Prefix.PUSHB ->
                IF postfix = 0 THEN line(<<0>>, "", pc + 1) ELSE bytes(postfix)
          [] i \in {Prefix.JMP, Prefix.JZ, Prefix.JNZ} ->
                IF Len(code) < pc + 1 THEN line(<<>>, "(invalid, overruns code)", None)
                ELSE IF pc + 2 >= Len(code) THEN line(<<>>, "(panic)", None)
                ELSE line(<<code[pc + 2] + code[pc + 3] * 256>>, "to", pc + 3)
          [] i = Prefix.BINARY ->
                IF Binary_from(postfix) # None
                THEN line(<<>>, Display("Binary", Binary_from(postfix)), pc + 1)
                ELSE line(<<postfix>>, "unknown", pc + 1)
          [] i = Prefix.UNARY ->
                IF Unary_from(postfix) # None
                THEN line(<<>>, Display("Unary", Unary_from(postfix)), pc + 1)
                ELSE line(<<postfix>>, "unknown", pc + 1)
          [] i = Prefix.USER ->
                line(<<>>,
                     CASE postfix = 0 -> "get_length"
                       [] postfix = 1 -> "get_wall_time"
                       [] postfix = 2 -> "get_precise_time"
                       [] postfix = 3 -> "set_pixel"
                       [] postfix = 4 -> "blit"
                       [] postfix = 5 -> "random_int"
                       [] postfix = 6 -> "get_pixel"
                       [] OTHER -> "(unknown user function)",
                     pc + 1)
          [] i = Prefix.SPECIAL ->
                line(<<>>,
                     CASE postfix = 12 -> "swap"
                       [] postfix = 13 -> "dump"
                       [] postfix = 14 -> "yield"
                       [] postfix = 15 -> "two-byte instruction"
                       [] OTHER -> "(unknown special function)",
                     pc + 1)
          [] OTHER -> line(<<postfix>>, "", pc + 1)

\* the while loop of fmt, from pc on
RECURSIVE fmt_lines(_, _)
fmt_lines(code, pc) ==
    IF ~(pc < Len(code)) THEN <<>>
    ELSE IF fmt_line(code, pc).next = None THEN <<fmt_line(code, pc)>>
    ELSE <<fmt_line(code, pc)>> \o fmt_lines(code, fmt_line(code, pc).next)

\* impl fmt::Debug for Program
Debug_fmt(self) == fmt_lines(self.code, 0)

(***************************************************************************)
(* The AST and the assembler (compiler/ast.rs).                            *)
(***************************************************************************)
Literal(u) == [k |-> "Literal", v |-> u]
ExprUnary(op, rhs) == [k |-> "Unary", op |-> op, rhs |-> rhs]
ExprBinary(lhs, op, rhs) == [k |-> "Binary", lhs |-> lhs, op |-> op, rhs |-> rhs]
ExprUser(s) == [k |-> "User", s |-> s]
ExprUserCall(s, e) == [k |-> "UserCall", s |-> s, e |-> e]
Load(name) == [k |-> "Load", name |-> name]
Clamp(value, min, max) == [k |-> "Clamp", value |-> value, min |-> min, max |-> max]

NodeExpression(e) == [k |-> "Expression", e |-> e]
NodeSpecial(s) == [k |-> "Special", s |-> s]
NodeUserCall(s, e) == [k |-> "UserCall", s |-> s, e |-> e]
NodeUser(s) == [k |-> "User", s |-> s]
Statements(stmts) == [k |-> "Statements", stmts |-> stmts]
Loop(stmts) == [k |-> "Loop", stmts |-> stmts]
If(e, ss) == [k |-> "If", e |-> e, ss |-> ss]
IfElse(e, ss, else_ss) == [k |-> "IfElse", e |-> e, ss |-> ss, else_ss |-> else_ss]
NewVarAssignment(name, e) == [k |-> "NewVarAssignment", name |-> name, e |-> e]
VarAssignment(name, e) == [k |-> "VarAssignment", name |-> name, e |-> e]
For(name, e, stmts) == [k |-> "For", name |-> name, e |-> e, stmts |-> stmts]

\* Option<u32>, or the panic of the compiler
Some(v) == [t |-> "Some", v |-> v]
NONE == [t |-> "None", v |-> ZERO]
some_arith(r) == IF r.o /\ overflow_checks THEN PANIC ELSE Some(r.v)

const_unary(op, c) ==
    CASE op = Unary.INC -> Some(overflowing_add(c, ONE).v)
      [] op = Unary.DEC -> Some(overflowing_sub(c, ONE).v)
      [] op = Unary.NOT -> Some(u32_not(c))
      [] op = Unary.NEG -> NONE
      [] op = Unary.SHL8 -> Some(shl8(c))
      [] op = Unary.SHR8 -> Some(shl8(c))

const_binary(op, lhc, rhc) ==
    CASE op = Binary.ADD -> Some(overflowing_add(lhc, rhc).v)
      [] op = Binary.SUB -> Some(overflowing_sub(lhc, rhc).v)
      [] op = Binary.DIV -> IF rhc = ZERO THEN PANIC ELSE Some(u32_div(lhc, rhc))
      [] op = Binary.MUL -> Some(overflowing_mul(lhc, rhc).v)
      [] op = Binary.MOD -> IF rhc = ZERO THEN PANIC ELSE Some(u32_rem(lhc, rhc))
      [] op = Binary.EQ -> Some(u32_from_bool(lhc = rhc))
      [] op = Binary.NEQ -> Some(u32_from_bool(lhc # rhc))
      [] op = Binary.LT -> Some(u32_from_bool(u32_lt(lhc, rhc)))
      [] op = Binary.LTE -> Some(u32_from_bool(u32_le(lhc, rhc)))
      [] op = Binary.GT -> Some(u32_from_bool(u32_lt(rhc, lhc)))
      [] op = Binary.GTE -> Some(u32_from_bool(u32_le(rhc, lhc)))
      [] op = Binary.OR -> Some(u32_or(lhc, rhc))
      [] op = Binary.XOR -> Some(u32_xor(lhc, rhc))
      [] op = Binary.AND -> Some(u32_and(lhc, rhc))
      [] op = Binary.SHL -> some_arith(overflowing_shl(lhc, rhc))
      [] op = Binary.SHR -> some_arith(overflowing_shr(lhc, rhc))

\* variant: the folded clamp without its upper bound
const_clamp_floor(c_value, c_min, c_max) ==
    Some(IF u32_lt(c_value, c_min) THEN c_min ELSE c_value)

const_clamp(c_value, c_min, c_max) ==
    LET result == IF u32_lt(c_value, c_min) THEN c_min ELSE c_value
    IN  Some(IF u32_lt(c_max, result) THEN c_max ELSE result)

RECURSIVE const_value(_)
const_value(self) ==
    CASE self.k = "Literal" -> Some(self.v)
      [] self.k \in {"UserCall", "User", "Load"} -> NONE
      [] self.k = "Binary" ->
            LET lhc == const_value(self.lhs)
                rhc == const_value(self.rhs)
            IN  IF lhc.t = "Panic" \/ rhc.t = "Panic" THEN PANIC
                ELSE IF lhc.t = "Some" /\ rhc.t = "Some"
                     THEN const_binary(self.op, lhc.v, rhc.v)
                     ELSE NONE
      [] self.k = "Unary" ->
            LET c == const_value(self.rhs)
            IN  IF c.t = "Some" THEN const_unary(self.op, c.v) ELSE c
      [] self.k = "Clamp" ->
            LET c_value == const_value(self.value)
                c_min == const_value(self.min)
                c_max == const_value(self.max)
            IN  IF "Panic" \in {c_value.t, c_min.t, c_max.t} THEN PANIC
                ELSE IF c_value.t = "Some" /\ c_min.t = "Some" /\ c_max.t = "Some"
                     THEN const_clamp(c_value.v, c_min.v, c_max.v)
                     ELSE NONE

\* A Scope with its chain of parents is a sequence of [variables, level],
\* the root first and the scope itself last.
Scope_new == <<[variables |-> <<>>, level |-> 0]>>
nest(scope) == Append(scope, [variables |-> <<>>, level |-> 0])

\* iter().position(|r| r == variable_name), counted from 0
position(variables, variable_name) ==
    IF \E i \in 1..Len(variables) : variables[i] = variable_name
    THEN (CHOOSE i \in 1..Len(variables) :
             /\ variables[i] = variable_name
             /\ \A j \in 1..(i - 1) : variables[j] # variable_name) - 1
    ELSE None

\* Option<u32> as [t, v]; v is the depth as an integer, a negative v standing
\* for the u32 the subtraction wrapped to (a panic under overflow checks)

\* variant: the depth found in the parent returned without the scope's level
RECURSIVE index_of_parent_depth(_, _)
index_of_parent_depth(scope, variable_name) ==
    LET self == scope[Len(scope)]
        i == position(self.variables, variable_name)
    IN  IF i # None
        THEN [t |-> "Some", v |-> self.level - 1 - i]
        ELSE IF Len(scope) > 1
             THEN index_of_parent_depth(SubSeq(scope, 1, Len(scope) - 1), variable_name)
             ELSE [t |-> "None", v |-> 0]

RECURSIVE index_of(_, _)
index_of(scope, variable_name) ==
    LET self == scope[Len(scope)]
        i == position(self.variables, variable_name)
    IN  IF i # None
        THEN IF self.level - 1 - i < 0 /\ overflow_checks
             THEN [t |-> "Panic", v |-> 0]
             ELSE [t |-> "Some", v |-> self.level - 1 - i]
        ELSE IF Len(scope) > 1
             THEN LET p == index_of(SubSeq(scope, 1, Len(scope) - 1), variable_name)
                  IN  IF p.t = "Some" THEN [t |-> "Some", v |-> p.v + self.level] ELSE p
             ELSE [t |-> "None", v |-> 0]

\* `relative as u8`, `len() as u8`
as_u8(n) == n % 256

\* The assembler's two arguments: c = [program, scope].
with_program(c, program) == [c EXCEPT !.program = program]
level(c) == c.scope[Len(c.scope)].level
set_level(c, n) ==
    IF c.program.err # "" THEN c
    ELSE IF n < 0 /\ overflow_checks THEN with_program(c, fail(c.program, "Panic"))
    ELSE [c EXCEPT !.scope[Len(c.scope)].level = n]
add_level(c, d) == set_level(c, level(c) + d)

\* one builder call, Program::f(n), on the program of c
emit(f, c, n) ==
    with_program(c,
        CASE f = "push" -> Program_push(c.program, n)
          [] f = "pop" -> Program_pop(c.program, n)
          [] f = "peek" -> Program_peek(c.program, n)
          [] f = "swap" -> Program_swap(c.program, n)
          [] f = "unary" -> Program_unary(c.program, n)
          [] f = "binary" -> Program_binary(c.program, n)
          [] f = "special" -> Program_special(c.program, n)
          [] f = "user" -> Program_user(c.program, n))

define_variable(c, variable_name) ==
    IF c.program.err # "" THEN c
    ELSE IF position(c.scope[Len(c.scope)].variables, variable_name) # None
         THEN with_program(c, fail(c.program, "RedifinedVariable"))
         ELSE [c EXCEPT !.scope[Len(c.scope)].variables = Append(@, variable_name)]

undefine_variable(c, variable_name) ==
    IF c.program.err # "" THEN c
    ELSE IF position(c.scope[Len(c.scope)].variables, variable_name) = None
         THEN with_program(c, fail(c.program, "UndefinedVariable"))
         ELSE [c EXCEPT !.scope[Len(c.scope)].variables =
                  SubSeq(@, 1, position(@, variable_name))
                  \o SubSeq(@, position(@, variable_name) + 2, Len(@))]

\* variant: the variables of a scope left on the stack at its end
assemble_teardown_keep(c) == c

assemble_teardown(c) ==
    IF c.scope[Len(c.scope)].variables # <<>>
    THEN emit("pop", c, as_u8(Len(c.scope[Len(c.scope)].variables)))
    ELSE c

unnest(c) ==
    IF c.program.err # "" THEN c
    ELSE IF Len(c.scope) > 1 THEN assemble_teardown(c)
    ELSE with_program(c, fail(c.program, "ConnotUnnest"))

\* the two arms that the lowering of clamp emits twice
clamp_take_bound(b) ==
    leave_on_stack(Program_pop(Program_swap(Program_pop(b, 1), 1), 1), -2)
clamp_keep_value(b) == leave_on_stack(Program_pop(b, 2), -2)
clamp_if_not_zero(program) == if_not_zero(program, clamp_take_bound(fragment(program, 3)))
clamp_if_zero(program) == if_zero(program, clamp_keep_value(fragment(program, 3)))

\* the compare-and-select that follows the value and one bound
clamp_select(c, cmp) ==
    with_program(c,
        leave_on_stack(
            clamp_if_zero(clamp_if_not_zero(
                Program_binary(Program_peek(Program_peek(c.program, 1), 1), cmp))),
            2))

RECURSIVE Expression_assemble(_, _)
RECURSIVE assemble_params(_, _)
assemble_params(e, c) ==
    IF e = <<>> THEN c
    ELSE assemble_params(Tail(e), Expression_assemble(Head(e), c))

\* Expression::assemble, given what const_value returned
assemble_folded(self, c, cv) ==
    CASE cv.t = "Panic" -> with_program(c, fail(c.program, "Panic"))
      [] cv.t = "Some" -> add_level(emit("push", c, cv.v), 1)
      [] self.k = "User" -> add_level(emit("user", c, self.s), 1)
      [] self.k = "UserCall" ->
            set_level(emit("user", assemble_params(self.e, c), self.s), level(c) + 1)
      [] self.k = "Unary" -> emit("unary", Expression_assemble(self.rhs, c), self.op)
      [] self.k = "Binary" ->
            add_level(
                emit("binary",
                     Expression_assemble(self.rhs, Expression_assemble(self.lhs, c)),
                     self.op),
                -1)
      [] self.k = "Load" ->
            CASE index_of(c.scope, self.name).t = "Some" ->
                    add_level(emit("peek", c, as_u8(index_of(c.scope, self.name).v)), 1)
              [] index_of(c.scope, self.name).t = "None" ->
                    with_program(c, fail(c.program, "UndefinedVariable"))
              [] OTHER -> with_program(c, fail(c.program, "Panic"))
      [] self.k = "Clamp" ->
            set_level(
                clamp_select(
                    Expression_assemble(self.max,
                        clamp_select(
                            Expression_assemble(self.min,
                                Expression_assemble(self.value, c)),
                            Binary.LT)),
                    Binary.GT),
                level(c) + 1)

Expression_assemble(self, c) ==
    IF c.program.err # "" THEN c ELSE assemble_folded(self, c, const_value(self))

\* the word expression set_pixel packs its colour arguments into
RECURSIVE shl8_times(_, _)
shl8_times(wrapped, n) ==
    IF n = 0 THEN wrapped ELSE shl8_times(ExprUnary(Unary.SHL8, wrapped), n - 1)

RECURSIVE color_expression(_, _, _)
color_expression(e, n, acc) ==
    IF n >= Len(e) THEN acc
    ELSE color_expression(e, n + 1,
             ExprBinary(acc, Binary.OR,
                 shl8_times(ExprBinary(e[n + 1], Binary.AND, Literal(u32(255))), n - 1)))

\* the arguments of a call statement; set_pixel's are the index and the colour
assemble_call(self, c) ==
    IF self.s = UserCommand.SET_PIXEL
    THEN set_level(
             Expression_assemble(
                 color_expression(self.e, 2,
                     ExprBinary(self.e[2], Binary.AND, Literal(u32(255)))),
                 set_level(Expression_assemble(self.e[1], c), level(c) + 1)),
             level(c))
    ELSE assemble_params(self.e, c)

\* variant: the depth of the variable taken as it was before the value of
\* the expression came on top
assemble_assignment_before(c, variable_name, old_level) ==
    IF c.program.err # "" THEN c
    ELSE CASE index_of(c.scope, variable_name).t = "Some" ->
                set_level(
                    emit("pop",
                         emit("swap", c, as_u8(index_of(c.scope, variable_name).v - 1)),
                         1),
                    old_level)
           [] index_of(c.scope, variable_name).t = "None" ->
                with_program(c, fail(c.program, "UndefinedVariable"))
           [] OTHER -> with_program(c, fail(c.program, "Panic"))

\* a VarAssignment once its expression is assembled into c
assemble_assignment(c, variable_name, old_level) ==
    IF c.program.err # "" THEN c
    ELSE CASE index_of(c.scope, variable_name).t = "Some" ->
                set_level(
                    emit("pop",
                         emit("swap", c, as_u8(index_of(c.scope, variable_name).v)),
                         1),
                    old_level)
           [] index_of(c.scope, variable_name).t = "None" ->
                with_program(c, fail(c.program, "UndefinedVariable"))
           [] OTHER -> with_program(c, fail(c.program, "Panic"))

RECURSIVE Node_assemble(_, _)
RECURSIVE assemble_stmts(_, _)
assemble_stmts(stmts, c) ==
    IF stmts = <<>> THEN c
    ELSE assemble_stmts(Tail(stmts), Node_assemble(Head(stmts), c))

\* the callback of the structured forms: a child scope, the statements, unnest
block(stmts, q, scope) ==
    unnest(assemble_stmts(stmts, [program |-> q, scope |-> nest(scope)])).program

\* one structured form, Program::f(closure), on the program of c
emit_block(f, c, stmts) ==
    with_program(c,
        CASE f = "if_not_zero" ->
                if_not_zero(c.program, block(stmts, fragment(c.program, 3), c.scope))
          [] f = "if_zero" ->
                if_zero(c.program, block(stmts, fragment(c.program, 3), c.scope))
          [] f = "repeat" ->
                repeat(c.program, block(stmts, fragment(c.program, 3), c.scope))
          [] f = "repeat_forever" ->
                repeat_forever(c.program, block(stmts, fragment(c.program, 0), c.scope)))

Node_assemble(self, c) ==
    IF c.program.err # "" THEN c
    ELSE CASE self.k = "Expression" ->
                add_level(emit("pop", Expression_assemble(self.e, c), 1), -1)
           [] self.k = "Special" -> emit("special", c, self.s)
           [] self.k = "User" -> emit("user", c, self.s)
           [] self.k = "UserCall" ->
                emit("pop", emit("user", assemble_call(self, c), self.s), 1)
           [] self.k = "Statements" -> assemble_stmts(self.stmts, c)
           [] self.k = "Loop" -> emit_block("repeat_forever", c, self.stmts)
           [] self.k = "For" ->
                emit("pop",
                     add_level(
                         undefine_variable(
                             emit_block("repeat",
                                 define_variable(Expression_assemble(self.e, c), self.name),
                                 self.stmts),
                             self.name),
                         -1),
                     1)
           [] self.k = "If" ->
                set_level(
                    emit("pop",
                         emit_block("if_not_zero", Expression_assemble(self.e, c), self.ss),
                         1),
                    level(c))
           [] self.k = "IfElse" ->
                set_level(
                    emit("pop",
                         emit_block("if_zero",
                             emit_block("if_not_zero",
                                 Expression_assemble(self.e, c), self.ss),
                             self.else_ss),
                         1),
                    level(c))
           [] self.k = "NewVarAssignment" ->
                define_variable(Expression_assemble(self.e, c), self.name)
           [] self.k = "VarAssignment" ->
                assemble_assignment(Expression_assemble(self.e, c), self.name, level(c))

\* Program::from_source on a source text whose parse is the node `n`
from_source(n) ==
    assemble_teardown(Node_assemble(n, [program |-> Program_new, scope |-> Scope_new])).program

(***************************************************************************)
(* Source texts, given as the tree the parser builds from them.            *)
(***************************************************************************)
word255 == u32(255)
minus_one(name) == ExprBinary(Load(name), Binary.SUB, Literal(ONE))

\* loop { blit; }
LoopBlit == Statements(<<Loop(<<NodeUser(UserCommand.BLIT)>>)>>)

\* let on=0; loop { on = ~on & 0x1; blit; }
Blink ==
    Statements(<<
        NewVarAssignment("on", Literal(ZERO)),
        Loop(<<VarAssignment("on",
                   ExprUnary(Unary.NOT, ExprBinary(Load("on"), Binary.AND, Literal(ONE)))),
               NodeUser(UserCommand.BLIT)>>)>>)

\* loop { for(i=get_length) { for(n=get_length) { set_pixel(n-1,0,0,0,0); };
\*        set_pixel(get_length-i,255,255,255,0); blit; }; }
Sweep ==
    Statements(<<Loop(<<
        For("i", ExprUser(UserCommand.GET_LENGTH), <<
            For("n", ExprUser(UserCommand.GET_LENGTH), <<
                NodeUserCall(UserCommand.SET_PIXEL,
                    <<minus_one("n"), Literal(ZERO), Literal(ZERO), Literal(ZERO),
                      Literal(ZERO)>>)>>),
            NodeUserCall(UserCommand.SET_PIXEL,
                <<ExprBinary(ExprUser(UserCommand.GET_LENGTH), Binary.SUB, Load("i")),
                  Literal(word255), Literal(word255), Literal(word255), Literal(ZERO)>>),
            NodeUser(UserCommand.BLIT)>>)>>)>>)

\* set_pixel(0,255,0,0,0); blit; set_pixel(0,0,255,0,0); blit;
TwoFrames ==
    Statements(<<
        NodeUserCall(UserCommand.SET_PIXEL,
            <<Literal(ZERO), Literal(word255), Literal(ZERO), Literal(ZERO), Literal(ZERO)>>),
        NodeUser(UserCommand.BLIT),
        NodeUserCall(UserCommand.SET_PIXEL,
            <<Literal(ZERO), Literal(ZERO), Literal(word255), Literal(ZERO), Literal(ZERO)>>),
        NodeUser(UserCommand.BLIT)>>)

\* loop { set_pixel(random(get_length), get_wall_time, get_precise_time, 0, 0); blit; }
Chaos ==
    Statements(<<Loop(<<
        NodeUserCall(UserCommand.SET_PIXEL,
            <<ExprUserCall(UserCommand.RANDOM_INT, <<ExprUser(UserCommand.GET_LENGTH)>>),
              ExprUser(UserCommand.GET_WALL_TIME), ExprUser(UserCommand.GET_PRECISE_TIME),
              Literal(ZERO), Literal(ZERO)>>),
        NodeUser(UserCommand.BLIT)>>)>>)

\* loop { }
Spin == Statements(<<Loop(<<>>)>>)

source(name) ==
    CASE name = "LoopBlit" -> LoopBlit
      [] name = "Blink" -> Blink
      [] name = "Sweep" -> Sweep
      [] name = "TwoFrames" -> TwoFrames
      [] name = "Chaos" -> Chaos
      [] name = "Spin" -> Spin

Sources == {"LoopBlit", "Blink", "Sweep", "TwoFrames", "Chaos", "Spin"}

(***************************************************************************)
(* The host (examples/basic.rs): compile a source text, build a VM, start  *)
(* the program on it and call next() on the state a bounded number of      *)
(* times.  One call of run() is the action RunCall that enters it followed *)
(* by one RunStep for each iteration of its while loop.                    *)
(***************************************************************************)
Limits == {None} \cup 0..MaxLimit
Clocks == [wall : {u32(5), u32(6)}, precise : {u32(50), u32(60)}]

NoProgram == fail(Program_new, "NotCompiled")
NoState ==
    [VMState_new(VM_new(0, TRUE), <<>>, StateConfig(None, None)) EXCEPT !.status = "unstarted"]
Host_new(n) == [take |-> n, outcomes |-> <<>>]

\* what the host holds after the run() call in `s` took one more step
received(h, s) ==
    IF s.status = "idle" THEN [h EXCEPT !.outcomes = Append(@, s.outcome)] ELSE h

Init ==
    /\ unit \in Sources
    /\ overflow_checks \in BOOLEAN
    /\ out = NoProgram
    /\ state = NoState
    /\ host = Host_new(MaxTake)
    /\ state2 = NoState
    /\ host2 = Host_new(0)

\* Program::from_source(source)
Compile ==
    /\ out = NoProgram
    /\ out' = from_source(source(unit))
    /\ UNCHANGED <<state, host, state2, host2, overflow_checks, unit>>

\* VM::new(length, config).start(program, state_config)
Start ==
    /\ out.err = ""
    /\ state.status = "unstarted"
    /\ \E len \in 0..MaxLen, deterministic \in BOOLEAN, global \in Limits, local \in Limits :
          state' = VM_start(VM_new(len, deterministic), out.code, StateConfig(global, local))
    /\ UNCHANGED <<host, state2, host2, overflow_checks, unit, out>>

\* the host calls next(), which calls run()
RunCall ==
    /\ state.status = "idle"
    /\ host.take > 0
    /\ state' = run_enter(state)
    /\ host' = [host EXCEPT !.take = @ - 1]
    /\ UNCHANGED <<state2, host2, overflow_checks, unit, out>>

\* one iteration of the while loop, or the return that ends the call
RunStep ==
    /\ state.status = "running"
    /\ state.local_instruction_count < MaxRunInstr
    /\ \E clock \in Clocks :
          /\ state' = run_iteration(state, clock)
          /\ host' = received(host, state')
    /\ UNCHANGED <<state2, host2, overflow_checks, unit, out>>

Next == Compile \/ Start \/ RunCall \/ RunStep

Spec == Init /\ [][Next]_vars

(***************************************************************************)
(* Properties of the VM under its host.                                    *)
(***************************************************************************)
\* a step of the while loop of run() that returned `outcome` to the host
Returns(outcome) ==
    /\ state.status = "running"
    /\ state'.status = "idle"
    /\ state'.outcome = outcome
    /\ host'.outcomes = Append(host.outcomes, outcome)

\* a step that executed no instruction
NothingExecuted ==
    /\ state'.instruction_count = state.instruction_count
    /\ state'.pc = state.pc
    /\ state'.stack = state.stack
    /\ state'.vm = state.vm

GlobalLimitStep ==
    LET K == state.config.global_instruction_limit
    IN  /\ state'.config.global_instruction_limit # None
            => state'.instruction_count <= state'.config.global_instruction_limit
        /\ (/\ state.status = "running"
            /\ K # None
            /\ state.instruction_count = K
            /\ state.pc < Len(state.program))
            => Returns(Error("GlobalInstructionLimitReached")) /\ NothingExecuted

\* C1: with a global instruction limit K the instruction count never exceeds
\* K, and the iteration of run() that finds the count at K with pc inside the
\* code returns GlobalInstructionLimitReached and executes nothing.
C1_GlobalLimit == [][GlobalLimitStep]_vars

\* `loop { blit; }` under limit MaxLimit has executed MaxLimit instructions
\* and received the limit error
C1_Witness ==
    /\ unit = "LoopBlit"
    /\ state.config.global_instruction_limit = MaxLimit
    /\ state.instruction_count = MaxLimit
    /\ state.status = "idle"
    /\ state.outcome = Error("GlobalInstructionLimitReached")

LocalLimitStep ==
    LET L == state.config.local_instruction_limit
        LimitError == Error("LocalInstructionLimitReached")
    IN  /\ state'.config.local_instruction_limit # None
            => state'.local_instruction_count <= state'.config.local_instruction_limit
        /\ (state.status = "idle" /\ state'.status = "running")
            => state'.local_instruction_count = 0
        /\ (/\ state.status = "running"
            /\ L # None
            /\ state.local_instruction_count = L
            /\ state.pc < Len(state.program)
            /\ ~GlobalLimitReached(state))
            => Returns(LimitError) /\ NothingExecuted
        /\ (state.status = "running" /\ state'.status = "idle" /\ state'.outcome = LimitError)
            => /\ L # None
               /\ state.local_instruction_count = L
               /\ state.pc < Len(state.program)
        /\ (unit = "LoopBlit" /\ L # None /\ L >= 2)
            => \A i \in 1..Len(host'.outcomes) : host'.outcomes[i] # LimitError

\* C2: with a local limit L one run() call executes at most L instructions,
\* returning LocalInstructionLimitReached when an (L+1)-th is due; the local
\* count is zero on entry to every run() call, so `loop { blit; }`, whose
\* frames need at most two instructions, never gets the error when L >= 2.
C2_LocalLimit == [][LocalLimitStep]_vars

\* `loop { blit; }` under local limit 2 gave a frame at every call
C2_Witness ==
    /\ unit = "LoopBlit"
    /\ state.config.local_instruction_limit = 2
    /\ state.instruction_count >= 5
    /\ Len(host.outcomes) = MaxTake
    /\ \A i \in 1..MaxTake : host.outcomes[i].tag = "BLIT"

BlitStep ==
    /\ (state.status = "running" /\ state'.status = "idle" /\ state'.outcome.tag = "BLIT")
        => /\ state.pc < Len(state.program)
           /\ code_at(state, state.pc) = Prefix.USER + UserCommand.BLIT
           /\ state'.pc = state.pc + 1
           /\ state'.stack = state.stack
    /\ (state.status = "idle" /\ state'.status = "running")
        => /\ state'.pc = state.pc
           /\ state'.stack = state.stack
           /\ state'.vm = state.vm

\* C3: run() returns a frame only from the iteration that executes USER blit;
\* it leaves pc on the byte after the blit and the stack as it was, and the
\* next run() call starts from that pc and stack.
C3_FrameOnlyOnBlit == [][BlitStep]_vars

\* a second run() call is under way after a blit that had a value on the stack
C3_Witness ==
    /\ Len(host.outcomes) = 1
    /\ host.outcomes[1].tag = "BLIT"
    /\ state.status = "running"
    /\ state.local_instruction_count > 0
    /\ state.stack # <<>>

SnapshotStep ==
    /\ (state.status = "running" /\ state'.status = "idle" /\ state'.outcome.tag = "BLIT")
        => /\ host'.outcomes = Append(host.outcomes, state'.outcome)
           /\ Len(state'.outcome.frame) = Len(state.vm.strip)
           /\ \A i \in 1..Len(state.vm.strip) : state'.outcome.frame[i] = state.vm.strip[i]
    /\ Len(host'.outcomes) >= Len(host.outcomes)
    /\ \A i \in 1..Len(host.outcomes) : host'.outcomes[i] = host.outcomes[i]

\* C4: the frame a blit returns is the strip as it is at that blit, and no
\* later step changes a frame the host already holds.
C4_FrameIsSnapshot == [][SnapshotStep]_vars

\* the host holds a red frame while a later set_pixel has made the strip green
C4_Witness ==
    /\ unit = "TwoFrames"
    /\ Len(host.outcomes) >= 1
    /\ host.outcomes[1].tag = "BLIT"
    /\ Len(state.vm.strip) >= 1
    /\ host.outcomes[1].frame[1] = ColorMiddleLayer_new(255, 0, 0, 0)
    /\ state.vm.strip[1] = ColorMiddleLayer_new(0, 255, 0, 0)

\* C7: Blink on a strip of length 1 with no instruction limit: every next()
\* call returns the frame [(0,0,0)], one frame for one pass of the loop, and
\* no call returns an error, ends the iterator or aborts.
C7_Blink ==
    (/\ unit = "Blink"
     /\ state.status # "unstarted"
     /\ Len(state.vm.strip) = 1
     /\ state.config = StateConfig(None, None))
    => /\ state.status \in {"idle", "running"}
       /\ state.local_instruction_count <= 8
       /\ \A i \in 1..Len(host.outcomes) : host.outcomes[i] = BLIT(<<RGBW_BLACK>>)
       /\ state.status = "idle" => Len(host.outcomes) = MaxTake - host.take
       /\ state.status = "running" => Len(host.outcomes) = MaxTake - host.take - 1

\* every next() call of the host has returned a frame of Blink
C7_Witness ==
    /\ unit = "Blink"
    /\ Len(state.vm.strip) = 1
    /\ state.config = StateConfig(None, None)
    /\ host.take = 0
    /\ Len(host.outcomes) = MaxTake
    /\ host.outcomes[MaxTake] = BLIT(<<RGBW_BLACK>>)

(***************************************************************************)
(* Two hosts, each with its own VM in deterministic mode, started with the *)
(* same arguments; the two run independently and have their own clocks.    *)
(***************************************************************************)
DetSources == {"Chaos", "TwoFrames"}
DetLimits == {None, MaxLimit}

InitDet ==
    /\ unit \in DetSources
    /\ overflow_checks \in BOOLEAN
    /\ out = NoProgram
    /\ state = NoState
    /\ host = Host_new(MaxTake)
    /\ state2 = NoState
    /\ host2 = Host_new(MaxTake)

\* VM::new(length, config).start(program, state_config), twice over
StartPair ==
    /\ out.err = ""
    /\ state.status = "unstarted"
    /\ state2.status = "unstarted"
    /\ \E len \in 0..MaxLen, global \in DetLimits, local \in DetLimits :
          /\ state' = VM_start(VM_new(len, TRUE), out.code, StateConfig(global, local))
          /\ state2' = VM_start(VM_new(len, TRUE), out.code, StateConfig(global, local))
    /\ UNCHANGED <<host, host2, overflow_checks, unit, out>>

RunCall2 ==
    /\ state2.status = "idle"
    /\ host2.take > 0
    /\ state2' = run_enter(state2)
    /\ host2' = [host2 EXCEPT !.take = @ - 1]
    /\ UNCHANGED <<state, host, overflow_checks, unit, out>>

RunStep2 ==
    /\ state2.status = "running"
    /\ state2.local_instruction_count < MaxRunInstr
    /\ \E clock \in Clocks :
          /\ state2' = run_iteration(state2, clock)
          /\ host2' = received(host2, state2')
    /\ UNCHANGED <<state, host, overflow_checks, unit, out>>

NextDet == Compile \/ StartPair \/ RunCall \/ RunStep \/ RunCall2 \/ RunStep2

SpecDet == InitDet /\ [][NextDet]_vars

\* C5: with deterministic = true, two VM states started on the same program,
\* strip length and limits (the seed is fixed) give the same outcomes call
\* for call, frames compared pixel by pixel, and neither aborts in a call
\* that the other one returned from.
C5_Deterministic ==
    (state.status # "unstarted" /\ state.vm.deterministic)
    => /\ \A i \in 1..Len(host.outcomes) :
             i <= Len(host2.outcomes)
             => /\ host.outcomes[i].tag = host2.outcomes[i].tag
                /\ host.outcomes[i].err = host2.outcomes[i].err
                /\ Len(host.outcomes[i].frame) = Len(host2.outcomes[i].frame)
                /\ \A j \in 1..Len(host.outcomes[i].frame) :
                      host.outcomes[i].frame[j] = host2.outcomes[i].frame[j]
       /\ state.status = "aborted" => Len(host2.outcomes) <= Len(host.outcomes)
       /\ state2.status = "aborted" => Len(host.outcomes) <= Len(host2.outcomes)

\* both hosts hold every frame of the program that reads both clocks and the
\* random generator, and the frames are lit
C5_Witness ==
    /\ unit = "Chaos"
    /\ state.vm.deterministic
    /\ Len(host.outcomes) = MaxTake
    /\ Len(host2.outcomes) = MaxTake
    /\ host.outcomes[MaxTake].tag = "BLIT"
    /\ host2.outcomes[MaxTake] = host.outcomes[MaxTake]
    /\ \E j \in 1..Len(host.outcomes[MaxTake].frame) :
          host.outcomes[MaxTake].frame[j] # RGBW_BLACK

(***************************************************************************)
(* The example host (examples/basic.rs) running the Sweep program: a strip *)
(* of up to SweepLen pixels, no instruction limit, one next() call for each *)
(* pixel of the strip.                                                     *)
(***************************************************************************)
SweepLen == 10

InitSweep ==
    /\ unit = "Sweep"
    /\ overflow_checks \in BOOLEAN
    /\ out = NoProgram
    /\ state = NoState
    /\ host = Host_new(0)
    /\ state2 = NoState
    /\ host2 = Host_new(0)

StartSweep ==
    /\ out.err = ""
    /\ state.status = "unstarted"
    /\ \E len \in 1..SweepLen, deterministic \in BOOLEAN :
          /\ state' = VM_start(VM_new(len, deterministic), out.code, StateConfig(None, None))
          /\ host' = Host_new(len)
    /\ UNCHANGED <<state2, host2, overflow_checks, unit, out>>

NextSweep == Compile \/ StartSweep \/ RunCall \/ RunStep

SpecSweep == InitSweep /\ [][NextSweep]_vars

\* C6: Sweep on a strip of length L: the k-th frame (k from 0) is white at
\* index k and black elsewhere, for every k below L, and no run() call
\* returns an error, ends the program, aborts or fails to return.
C6_Sweep ==
    LET L == Len(state.vm.strip)
        white == ColorMiddleLayer_new(255, 255, 255, 0)
    IN  state.status # "unstarted"
        => /\ out.err = ""
           /\ state.status \in {"idle", "running"}
           /\ state.local_instruction_count < MaxRunInstr
           /\ Len(host.outcomes) <= L
           /\ \A k \in 0..(Len(host.outcomes) - 1) :
                 /\ host.outcomes[k + 1].tag = "BLIT"
                 /\ Len(host.outcomes[k + 1].frame) = L
                 /\ \A j \in 0..(L - 1) :
                       host.outcomes[k + 1].frame[j + 1] =
                           IF j = k THEN white ELSE RGBW_BLACK

\* the strip of SweepLen pixels has shown its last frame
C6_Witness ==
    /\ Len(state.vm.strip) = SweepLen
    /\ Len(host.outcomes) = SweepLen
    /\ host.outcomes[SweepLen].tag = "BLIT"
    /\ host.outcomes[SweepLen].frame[SweepLen] = ColorMiddleLayer_new(255, 255, 255, 0)
    /\ host.outcomes[SweepLen].frame[1] = RGBW_BLACK

(***************************************************************************)
(* Constant folding against the VM: one operator, constant operands, what  *)
(* Expression::const_value makes of it and what the VM's apply makes of it. *)
(***************************************************************************)
FoldWords ==
    {ZERO, ONE, u32(8), u32(31), u32(32), u32(256), <<32768, 0>>, <<4660, 22136>>, U32_MAX}
FoldedUnary == {Unary.INC, Unary.DEC, Unary.NOT, Unary.SHL8, Unary.SHR8}
BinaryOps == {Binary_from(n) : n \in 0..15}
NoFold == [done |-> FALSE, folded |-> NONE, vm |-> PANIC]

InitFold ==
    /\ unit \in [kind : {"unary"}, op : FoldedUnary, a : FoldWords, b : {ZERO}]
                \cup [kind : {"binary"}, op : BinaryOps, a : FoldWords, b : FoldWords]
    /\ overflow_checks \in BOOLEAN
    /\ out = NoFold
    /\ state = NoState
    /\ host = Host_new(0)
    /\ state2 = NoState
    /\ host2 = Host_new(0)

FoldUnary ==
    /\ ~out.done
    /\ unit.kind = "unary"
    /\ out' = [done |-> TRUE,
               folded |-> const_value(ExprUnary(unit.op, Literal(unit.a))),
               vm |-> Unary_apply(unit.op, unit.a)]
    /\ UNCHANGED <<state, host, state2, host2, overflow_checks, unit>>

FoldBinary ==
    /\ ~out.done
    /\ unit.kind = "binary"
    /\ out' = [done |-> TRUE,
               folded |-> const_value(ExprBinary(Literal(unit.a), unit.op, Literal(unit.b))),
               vm |-> Binary_apply(unit.op, unit.a, unit.b)]
    /\ UNCHANGED <<state, host, state2, host2, overflow_checks, unit>>

NextFold == FoldUnary \/ FoldBinary

SpecFold == InitFold /\ [][NextFold]_vars

\* C8: for each folded unary operator and each binary operator, whenever the
\* VM computes a value for the operands, constant folding gives that value.
C8_FoldEqualsVM ==
    (out.done /\ out.vm.t = "Ok") => out.folded = Some(out.vm.v)

\* SHR8 of 0x100 has been folded and applied
C8_Witness ==
    /\ out.done
    /\ unit.kind = "unary"
    /\ unit.op = Unary.SHR8
    /\ unit.a = u32(256)
    /\ out.vm = Ok(ONE)

(***************************************************************************)
(* clamp with constant arguments: the expression alone, assembled into an  *)
(* empty program.                                                          *)
(***************************************************************************)
ClampWords == {ZERO, ONE, u32(10), u32(50), u32(300), U32_MAX}

\* a constant argument: the literal, or an expression that folds to it
constant_argument(form, w) ==
    IF form = "literal" THEN Literal(w)
    ELSE ExprBinary(ExprUnary(Unary.NOT, Literal(u32_not(w))), Binary.ADD, Literal(ZERO))

InitClamp ==
    /\ unit \in [form : {"literal", "folded"}, v : ClampWords, lo : ClampWords, hi : ClampWords]
    /\ overflow_checks \in BOOLEAN
    /\ out = NoProgram
    /\ state = NoState
    /\ host = Host_new(0)
    /\ state2 = NoState
    /\ host2 = Host_new(0)

AssembleClamp ==
    /\ out = NoProgram
    /\ out' = Expression_assemble(
                  Clamp(constant_argument(unit.form, unit.v),
                        constant_argument(unit.form, unit.lo),
                        constant_argument(unit.form, unit.hi)),
                  [program |-> Program_new, scope |-> Scope_new]).program
    /\ UNCHANGED <<state, host, state2, host2, overflow_checks, unit>>

NextClamp == AssembleClamp

SpecClamp == InitClamp /\ [][NextClamp]_vars

\* C9: clamp with three constant arguments assembles to one PUSH instruction
\* and nothing else; the value it pushes is v raised to lo when v < lo, then
\* lowered to hi when that exceeds hi; clamp(50, 0, 10) is PUSHB 1, 0x0A.
C9_ClampFolds ==
    LET raised == IF u32_lt(unit.v, unit.lo) THEN unit.lo ELSE unit.v
        clamped == IF u32_lt(unit.hi, raised) THEN unit.hi ELSE raised
        code == out.code
    IN  out # NoProgram
        => /\ out.err = ""
           /\ Len(code) >= 1
           /\ CASE code[1] = Prefix.PUSHB -> Len(code) = 1 /\ clamped = ZERO
                [] code[1] = Prefix.PUSHB + 1 -> Len(code) = 2 /\ clamped = u32(code[2])
                [] code[1] = Prefix.PUSHI + 1 ->
                       /\ Len(code) = 5
                       /\ clamped = from_le_bytes(code[2], code[3], code[4], code[5])
                [] OTHER -> FALSE
           /\ (unit.v = u32(50) /\ unit.lo = ZERO /\ unit.hi = u32(10))
               => code = <<Prefix.PUSHB + 1, 10>>

\* clamp(50, 0, 10) has been assembled from its literals
C9_Witness ==
    /\ unit = [form |-> "literal", v |-> u32(50), lo |-> ZERO, hi |-> u32(10)]
    /\ out # NoProgram
    /\ out.code = <<17, 10>>

(***************************************************************************)
(* clamp with run-time arguments, under a variable that is already on the  *)
(* stack, compiled from its source and run by the host.                    *)
(***************************************************************************)
\* get_length * 0 + w: the word w, computed when the program runs
runtime_argument(w) ==
    ExprBinary(ExprBinary(ExprUser(UserCommand.GET_LENGTH), Binary.MUL, Literal(ZERO)),
               Binary.ADD, Literal(w))

\* let x = 7; let y = clamp(v, lo, hi); blit;
ClampProgram(v, lo, hi) ==
    Statements(<<
        NewVarAssignment("x", Literal(u32(7))),
        NewVarAssignment("y",
            Clamp(runtime_argument(v), runtime_argument(lo), runtime_argument(hi))),
        NodeUser(UserCommand.BLIT)>>)

InitClampRun ==
    /\ unit \in [v : ClampWords, lo : ClampWords, hi : ClampWords]
    /\ overflow_checks \in BOOLEAN
    /\ out = NoProgram
    /\ state = NoState
    /\ host = Host_new(MaxTake)
    /\ state2 = NoState
    /\ host2 = Host_new(0)

CompileClamp ==
    /\ out = NoProgram
    /\ out' = from_source(ClampProgram(unit.v, unit.lo, unit.hi))
    /\ UNCHANGED <<state, host, state2, host2, overflow_checks, unit>>

\* VM::new(length, VMConfig::default()).start(program, StateConfig::default())
StartDefault ==
    /\ out.err = ""
    /\ state.status = "unstarted"
    /\ \E len \in 0..MaxLen :
          state' = VM_start(VM_new(len, FALSE), out.code, StateConfig(None, None))
    /\ UNCHANGED <<host, state2, host2, overflow_checks, unit, out>>

NextClampRun == CompileClamp \/ StartDefault \/ RunCall \/ RunStep

SpecClampRun == InitClampRun /\ [][NextClampRun]_vars

\* C10: the code of a clamp that is not folded, run on any values of v, lo
\* and hi, leaves the stack one deeper, the clamped value on top (v raised to
\* lo when v < lo, then lowered to hi when that exceeds hi) and the variable
\* below it untouched; seen at the blit that follows the clamp.
C10_ClampRuns ==
    LET raised == IF u32_lt(unit.v, unit.lo) THEN unit.lo ELSE unit.v
        clamped == IF u32_lt(unit.hi, raised) THEN unit.hi ELSE raised
    IN  /\ out # NoProgram => out.err = ""
        /\ (state.status # "unstarted" /\ host.outcomes = <<>>)
            => state.status \in {"idle", "running"}
        /\ (state.status = "idle" /\ Len(host.outcomes) = 1)
            => /\ host.outcomes[1].tag = "BLIT"
               /\ state.stack = <<u32(7), clamped>>

\* the run of clamp(50, 10, 0) has reached its blit
C10_Witness ==
    /\ unit = [v |-> u32(50), lo |-> u32(10), hi |-> ZERO]
    /\ state.status = "idle"
    /\ Len(host.outcomes) = 1
    /\ host.outcomes[1].tag = "BLIT"

(***************************************************************************)
(* The compiler on a family of source programs: every statement form, with *)
(* constant and run-time expressions, variables declared at the top level  *)
(* and inside blocks, and programs the compiler rejects.                   *)
(***************************************************************************)
SourceExpressions ==
    {Literal(u32(3)),
     ExprUser(UserCommand.GET_LENGTH),
     Load("x"),
     ExprBinary(ExprUser(UserCommand.GET_LENGTH), Binary.ADD, Load("x")),
     ExprUserCall(UserCommand.GET_PIXEL, <<Literal(ZERO)>>),
     Clamp(ExprUser(UserCommand.GET_LENGTH), Literal(ONE), Literal(u32(2)))}

SimpleStatements ==
    {NodeUser(UserCommand.BLIT), NodeSpecial(Special.DUMP)}
    \cup {NodeExpression(e) : e \in SourceExpressions}
    \cup {NewVarAssignment("y", e) : e \in SourceExpressions}
    \cup {VarAssignment("x", e) : e \in SourceExpressions}
    \cup {NodeUserCall(UserCommand.SET_PIXEL,
              <<e, Literal(word255), Literal(ZERO), Literal(ZERO), Literal(ZERO)>>) :
             e \in SourceExpressions}

SourceBlocks ==
    {<<>>}
    \cup {<<s>> : s \in SimpleStatements}
    \cup {<<NewVarAssignment("z", Literal(ONE)), s>> : s \in SimpleStatements}

BlockStatements ==
    {Loop(b) : b \in SourceBlocks}
    \cup {If(Load("x"), b) : b \in SourceBlocks}
    \cup {IfElse(Load("x"), b, <<NewVarAssignment("w", Literal(ZERO))>>) : b \in SourceBlocks}
    \cup {For("i", ExprUser(UserCommand.GET_LENGTH), b) : b \in SourceBlocks}

SourcePrograms ==
    {Statements(<<s>>) : s \in SimpleStatements}
    \cup {Statements(<<NewVarAssignment("x", Literal(ZERO)), s>>) :
             s \in SimpleStatements \cup BlockStatements}
    \cup {Statements(<<NewVarAssignment("x", ExprUser(UserCommand.GET_LENGTH)), s,
                       NewVarAssignment("v", Literal(ONE))>>) : s \in BlockStatements}

InitSource ==
    /\ unit \in SourcePrograms
    /\ overflow_checks \in BOOLEAN
    /\ out = NoProgram
    /\ state = NoState
    /\ host = Host_new(0)
    /\ state2 = NoState
    /\ host2 = Host_new(0)

\* Program::from_source on the source program `unit`
CompileSource ==
    /\ out = NoProgram
    /\ out' = from_source(unit)
    /\ UNCHANGED <<state, host, state2, host2, overflow_checks, unit>>

NextSource == CompileSource

SpecSource == InitSource /\ [][NextSource]_vars

MaxPostfix == 17
MaxCalls == 2

Emitters == {"pop", "peek", "swap", "unary", "binary", "push", "user", "special"}
StructuredEmitters == {"if_zero", "if_not_zero", "repeat", "repeat_forever"}

Plain(f, n) == [f |-> f, n |-> n, body |-> <<>>]
Structured(f, body) == [f |-> f, n |-> 0, body |-> body]

\* the offset of the fragment an emitter hands to its callback
header(f) == IF f = "repeat_forever" THEN 0 ELSE 3

RECURSIVE build(_, _)
\* one call of a builder method on the program p
call(p, c) ==
    CASE c.f = "leave_on_stack" -> leave_on_stack(p, c.n)
      [] c.f = "if_zero" -> if_zero(p, build(c.body, fragment(p, header(c.f))))
      [] c.f = "if_not_zero" -> if_not_zero(p, build(c.body, fragment(p, header(c.f))))
      [] c.f = "repeat" -> repeat(p, build(c.body, fragment(p, header(c.f))))
      [] c.f = "repeat_forever" ->
            repeat_forever(p, build(c.body, fragment(p, header(c.f))))
      [] c.f = "push" -> Program_push(p, u32(c.n))
      [] OTHER -> emit(c.f, [program |-> p, scope |-> Scope_new], c.n).program

\* a callback: the calls it makes on the fragment q, in order
build(calls, q) ==
    IF calls = <<>> THEN q ELSE build(Tail(calls), call(q, Head(calls)))

\* the arguments tried: every one on the new program, a sample afterwards
Postfixes(first) == IF first THEN 0..MaxPostfix ELSE {0, 1, POSTFIX_MAX, MaxPostfix}
PlainCalls(first) ==
    {Plain(f, n) : f \in {"pop", "peek", "swap"}, n \in Postfixes(first)}
    \cup {Plain("unary", n) : n \in IF first THEN 0..5 ELSE {Unary.DEC}}
    \cup {Plain("binary", n) : n \in IF first THEN 0..15 ELSE {Binary.ADD}}
    \cup {Plain("push", n) : n \in {0, 10, HALF + 258}}
    \cup {Plain("user", n) : n \in IF first THEN 0..6 ELSE {UserCommand.BLIT}}
    \cup {Plain("special", n) : n \in IF first THEN {Special.DUMP, Special.TWOBYTE}
                                       ELSE {Special.DUMP}}

Bodies ==
    {<<>>,
     <<Plain("user", UserCommand.BLIT)>>,
     <<Plain("peek", 0), Plain("pop", 1)>>,
     <<Plain("push", HALF + 258), Plain("pop", 1)>>,
     <<Plain("peek", 0)>>,
     <<Plain("pop", 1)>>,
     <<Plain("peek", 0), Plain("leave_on_stack", 1)>>,
     <<Plain("pop", 1), Plain("leave_on_stack", -1)>>,
     <<Plain("leave_on_stack", 1)>>,
     <<Plain("peek", POSTFIX_MAX + 1)>>,
     <<Structured("if_zero", <<Plain("unary", Unary.INC)>>)>>}

StructuredCalls == {Structured(f, body) : f \in StructuredEmitters, body \in Bodies}

InitBuilder ==
    /\ unit = <<>>
    /\ out = Program_new
    /\ overflow_checks = TRUE
    /\ state = NoState
    /\ host = Host_new(0)
    /\ state2 = NoState
    /\ host2 = Host_new(0)

\* pop, peek, swap, unary, binary, push, user or special
Call ==
    /\ out.err = ""
    /\ host.take = 0
    /\ Len(unit) < MaxCalls
    /\ \E c \in PlainCalls(unit = <<>>) :
          /\ out' = call(out, c)
          /\ unit' = Append(unit, c)
    /\ UNCHANGED <<state, host, state2, host2, overflow_checks>>

\* if_zero, if_not_zero, repeat or repeat_forever with a callback
CallStructured ==
    /\ out.err = ""
    /\ host.take = 0
    /\ Len(unit) < MaxCalls
    /\ \E c \in StructuredCalls :
          /\ out' = call(out, c)
          /\ unit' = Append(unit, c)
    /\ UNCHANGED <<state, host, state2, host2, overflow_checks>>

\* the client prints the program it built: format!("{:?}", program)
Fmt ==
    /\ out.err = ""
    /\ host.take = 0
    /\ unit # <<>>
    /\ host' = [take |-> 1, outcomes |-> Debug_fmt(out)]
    /\ UNCHANGED <<state, state2, host2, overflow_checks, unit, out>>

NextBuilder == Call \/ CallStructured \/ Fmt

SpecBuilder == InitBuilder /\ [][NextBuilder]_vars

\* the call a step made, when it made one
Called(c) == unit' = Append(unit, c)

PostfixStep ==
    \A f \in {"pop", "peek", "swap"}, n \in 0..MaxPostfix :
        Called(Plain(f, n)) =>
            IF n > 15
            THEN /\ out'.err = "PostfixLimit"
                 /\ out'.code = out.code
                 /\ out'.stack_size = out.stack_size
            ELSE /\ out'.err = ""
                 /\ out'.code = Append(out.code, out'.code[Len(out'.code)])
                 /\ out'.code[Len(out'.code)] \div 16 =
                        (CASE f = "pop" -> 0 [] f = "peek" -> 2 [] f = "swap" -> 9)
                 /\ out'.code[Len(out'.code)] % 16 = n

\* C12: pop(n), peek(n) and swap(n) with n > 15 return PostfixLimit and leave
\* code and stack_size as they were; with n <= 15 each appends one byte, the
\* prefix in its high nibble and n in its low nibble.
C12_PostfixLimit == [][PostfixStep]_vars

\* a swap beyond the limit was refused after peek(15) had written its byte
C12_Witness ==
    /\ unit = <<Plain("peek", 15), Plain("swap", MaxPostfix)>>
    /\ out.err = "PostfixLimit"
    /\ out.code = <<47>>
    /\ out.stack_size = 1

FragmentStep ==
    \A c \in StructuredCalls :
        (/\ Called(c)
         /\ build(c.body, fragment(out, header(c.f))).err = ""
         /\ build(c.body, fragment(out, header(c.f))).stack_size # 0)
        => /\ out'.err = "FragmentCannotModifyStackSize"
           /\ out'.code = out.code
           /\ out'.stack_size = out.stack_size

\* C13: if_zero, if_not_zero, repeat and repeat_forever return
\* FragmentCannotModifyStackSize when the callback leaves the fragment with a
\* stack_size other than zero, leave_on_stack counted, and then add no byte
\* to the program and keep its stack_size.
C13_FragmentStackSize == [][FragmentStep]_vars

\* repeat refused a body that only peeks, after push(10)
C13_Witness ==
    /\ unit = <<Plain("push", 10), Structured("repeat", <<Plain("peek", 0)>>)>>
    /\ out.err = "FragmentCannotModifyStackSize"
    /\ out.code = <<17, 10>>
    /\ out.stack_size = 1

\* What a listing of the calls made is expected to show: for each instruction
\* a call emitted, its address, the name of its prefix, and its operand.
ExpectedLine(pc, prefix, operand, text) ==
    [pc |-> pc, name |-> Display("Prefix", prefix), operand |-> operand, text |-> text]

RECURSIVE ByteSize(_)
ByteSize(calls) ==
    IF calls = <<>> THEN 0
    ELSE ByteSize(Tail(calls))
         + (CASE Head(calls).f = "leave_on_stack" -> 0
              [] Head(calls).f = "push" ->
                    (IF Head(calls).n = 0 THEN 1 ELSE IF Head(calls).n <= 255 THEN 2 ELSE 5)
              [] Head(calls).f \in {"if_zero", "if_not_zero", "repeat_forever"} ->
                    3 + ByteSize(Head(calls).body)
              [] Head(calls).f = "repeat" -> 7 + ByteSize(Head(calls).body)
              [] OTHER -> 1)

RECURSIVE Expected(_, _)
ExpectedOf(c, pc) ==
    CASE c.f = "pop" -> <<ExpectedLine(pc, Prefix.POP, <<c.n>>, "")>>
      [] c.f = "peek" -> <<ExpectedLine(pc, Prefix.PEEK, <<c.n>>, "")>>
      [] c.f = "swap" -> <<ExpectedLine(pc, Prefix.SWAP, <<c.n>>, "")>>
      [] c.f = "unary" -> <<ExpectedLine(pc, Prefix.UNARY, <<>>, Display("Unary", c.n))>>
      [] c.f = "binary" -> <<ExpectedLine(pc, Prefix.BINARY, <<>>, Display("Binary", c.n))>>
      [] c.f = "push" ->
            IF c.n <= 255 THEN <<ExpectedLine(pc, Prefix.PUSHB, <<c.n>>, "")>>
            ELSE <<ExpectedLine(pc, Prefix.PUSHI, le_bytes(u32(c.n)), "")>>
      [] c.f = "user" ->
            <<ExpectedLine(pc, Prefix.USER, <<>>,
                CASE c.n = UserCommand.GET_LENGTH -> "get_length"
                  [] c.n = UserCommand.GET_WALL_TIME -> "get_wall_time"
                  [] c.n = UserCommand.GET_PRECISE_TIME -> "get_precise_time"
                  [] c.n = UserCommand.SET_PIXEL -> "set_pixel"
                  [] c.n = UserCommand.BLIT -> "blit"
                  [] c.n = UserCommand.RANDOM_INT -> "random_int"
                  [] c.n = UserCommand.GET_PIXEL -> "get_pixel")>>
      [] c.f = "special" ->
            <<ExpectedLine(pc, Prefix.SPECIAL, <<>>,
                CASE c.n = Special.DUMP -> "dump"
                  [] c.n = Special.TWOBYTE -> "two-byte instruction")>>
      [] c.f = "leave_on_stack" -> <<>>
      [] c.f = "if_zero" ->
            <<ExpectedLine(pc, Prefix.JNZ, <<pc + 3 + ByteSize(c.body)>>, "to")>>
            \o Expected(c.body, pc + 3)
      [] c.f = "if_not_zero" ->
            <<ExpectedLine(pc, Prefix.JZ, <<pc + 3 + ByteSize(c.body)>>, "to")>>
            \o Expected(c.body, pc + 3)
      [] c.f = "repeat" ->
            <<ExpectedLine(pc, Prefix.JZ, <<pc + 7 + ByteSize(c.body)>>, "to")>>
            \o Expected(c.body, pc + 3)
            \o <<ExpectedLine(pc + 3 + ByteSize(c.body), Prefix.UNARY, <<>>,
                              Display("Unary", Unary.DEC)),
                 ExpectedLine(pc + 4 + ByteSize(c.body), Prefix.JMP, <<pc>>, "to")>>
      [] c.f = "repeat_forever" ->
            Expected(c.body, pc)
            \o <<ExpectedLine(pc + ByteSize(c.body), Prefix.JMP, <<pc>>, "to")>>

Expected(calls, pc) ==
    IF calls = <<>> THEN <<>>
    ELSE ExpectedOf(Head(calls), pc)
         \o Expected(Tail(calls), pc + ByteSize(<<Head(calls)>>))

\* the printed lines, without the byte column
Printed ==
    [k \in 1..Len(host.outcomes) |->
        [pc |-> host.outcomes[k].pc, name |-> host.outcomes[k].name,
         operand |-> host.outcomes[k].operand, text |-> host.outcomes[k].text]]

\* C14: the Debug output of a program the builder emitted has one line for
\* each emitted instruction, at its start address, with the name and the
\* operand of that instruction: special(DUMP) as dump, swap(n) as SWAP n, the
\* jumps of the structured emitters with their targets.
C14_Disassembly == host.take = 1 => Printed = Expected(unit, 0)

\* the listing of a program that holds special(DUMP)
C14_Witness ==
    /\ host.take = 1
    /\ unit = <<Plain("special", Special.DUMP)>>
    /\ out.code = <<241>>
    /\ Len(host.outcomes) = 1

(***************************************************************************)
(* The VM on bytecode that did not come from the compiler: the host of     *)
(* examples/basic.rs with Program::from_binary in the place of             *)
(* from_source.  `unit` is the bytecode.                                   *)
(***************************************************************************)
Pushb(v) == <<Prefix.PUSHB + 1, v>>
Pushi(b) == <<Prefix.PUSHI + 1>> \o b

\* the colours written, as the four bytes of the word, least significant first
ColorBytes == {<<1, 2, 3, 0>>, <<255, 0, 128, 7>>}

Bytecodes ==
    \* operators on an empty stack and on a stack of one
    {<<Prefix.BINARY + op>> : op \in 0..15}
    \cup {<<Prefix.PUSHB, Prefix.BINARY + op>> : op \in 0..15}
    \cup {<<Prefix.UNARY + op>> : op \in 0..5}
    \cup {<<j, 3, 0>> : j \in {Prefix.JZ, Prefix.JNZ}}
    \cup {<<Prefix.USER + u>> :
             u \in {UserCommand.RANDOM_INT, UserCommand.GET_PIXEL, UserCommand.SET_PIXEL}}
    \cup {<<Prefix.PUSHB, Prefix.USER + UserCommand.SET_PIXEL>>}
    \* POP and PEEK within and beyond the stack
    \cup {<<Prefix.POP + n>> : n \in 0..2}
    \cup {<<Prefix.PUSHB, Prefix.POP + n>> : n \in 0..2}
    \cup {<<Prefix.PEEK + n>> : n \in 0..1}
    \cup {<<Prefix.PUSHB, Prefix.PEEK + n>> : n \in 0..1}
    \* division
    \cup {Pushb(a) \o Pushb(b) \o <<Prefix.BINARY + Binary.DIV>> : a \in {0, 7}, b \in {0, 2}}
    \cup {<<Prefix.USER + UserCommand.GET_LENGTH, Prefix.PUSHB, Prefix.BINARY + Binary.DIV>>}
    \* a pixel written, read back and shown
    \cup {Pushb(9) \o Pushb(i) \o Pushi(c)
          \o <<Prefix.USER + UserCommand.SET_PIXEL, Prefix.USER + UserCommand.GET_PIXEL,
               Prefix.USER + UserCommand.BLIT>> : i \in 0..MaxLen, c \in ColorBytes}
    \* conditional jumps, taken and not taken
    \cup {Pushb(v) \o <<j, target, 0>> \o <<Prefix.PUSHB, Prefix.PUSHB>> :
             v \in {0, 5}, j \in {Prefix.JZ, Prefix.JNZ}, target \in {6, 7}}
    \* the empty program, and bytes whose prefix (0xA to 0xD) is not defined
    \cup {<<>>}
    \cup {<<p * 16 + 5>> : p \in 10..13}
    \cup {<<Prefix.PUSHB, p * 16>> : p \in 10..13}
    \cup {<<Prefix.USER + UserCommand.BLIT, 176>>}
    \* the two clocks, read alone, late in a frame and in a second frame
    \cup {<<Prefix.USER + u>> : u \in {UserCommand.GET_WALL_TIME, UserCommand.GET_PRECISE_TIME}}
    \cup {[i \in 1..k |-> Prefix.PUSHB]
          \o <<Prefix.USER + UserCommand.GET_WALL_TIME, Prefix.USER + UserCommand.GET_PRECISE_TIME>> :
             k \in {8, 9, 19}}
    \cup {[i \in 1..7 |-> IF i = 3 THEN Prefix.USER + UserCommand.BLIT ELSE Prefix.PUSHB]
          \o <<Prefix.USER + u, Prefix.USER + UserCommand.GET_WALL_TIME>> :
             u \in {UserCommand.GET_WALL_TIME, UserCommand.GET_PRECISE_TIME}}
    \* random_int on bounds from 0 up, drawn twice
    \cup {Pushb(9) \o Pushb(n)
          \o <<Prefix.USER + UserCommand.RANDOM_INT, Prefix.USER + UserCommand.RANDOM_INT>> :
             n \in {0, 1, 2, 7, 255}}
    \cup {Pushi(<<0, 0, 1, 128>>) \o <<Prefix.USER + UserCommand.RANDOM_INT>>}

InitVM ==
    /\ unit \in Bytecodes
    /\ overflow_checks \in BOOLEAN
    /\ out = Program_from_binary(unit)
    /\ state = NoState
    /\ host = Host_new(MaxTake)
    /\ state2 = NoState
    /\ host2 = Host_new(0)

NextVM == Start \/ RunCall \/ RunStep

SpecVM == InitVM /\ [][NextVM]_vars

\* a step of run() that decodes and executes the instruction at pc
Executes ==
    /\ state.status = "running"
    /\ state' # state
    /\ state.pc < Len(state.program)
    /\ ~GlobalLimitReached(state)
    /\ ~LocalLimitReached(state)

Opcode == state.program[state.pc + 1] \div 16
Postfix == state.program[state.pc + 1] % 16
Depth == Len(state.stack)

UnderflowStep ==
    (/\ Executes
     /\ \/ Opcode = 8 /\ Depth < 2
        \/ Opcode = 7 /\ Postfix <= 5 /\ Depth = 0
        \/ Opcode \in {5, 6} /\ state.pc + 2 < Len(state.program) /\ Depth = 0
        \/ Opcode = 14 /\ Postfix \in {5, 6} /\ Depth = 0)
    => /\ Returns(Error("StackUnderflow"))
       /\ state'.pc = state.pc
       /\ state'.stack = state.stack

\* C15: BINARY with fewer than two stack elements, and UNARY, JZ, JNZ,
\* random_int and get_pixel on an empty stack, make run() return
\* Error(StackUnderflow) with pc and the stack as they were.
C15_StackUnderflow == [][UnderflowStep]_vars

\* the one-byte program [BINARY ADD] returned StackUnderflow
C15_Witness ==
    /\ unit = <<128>>
    /\ state.status = "idle"
    /\ state.outcome = Error("StackUnderflow")
    /\ state.pc = 0
    /\ state.stack = <<>>
    /\ state.instruction_count = 1

BeyondStackStep ==
    (/\ Executes
     /\ \/ Opcode = 0 /\ Postfix > Depth
        \/ Opcode = 2 /\ Postfix >= Depth
        \/ Opcode = 14 /\ Postfix = 3 /\ Depth < 2)
    => /\ state'.status = "idle"
       /\ state'.outcome.tag = "Error"
       /\ host'.outcomes = Append(host.outcomes, state'.outcome)

\* C16: POP n with n above the stack depth, PEEK n with n at or above it, and
\* set_pixel with fewer than two elements make run() return an Error to the
\* host; the VM does not abort.
C16_BeyondStack == [][BeyondStackStep]_vars

\* the program [POP 1] has been run on the empty stack
C16_Witness ==
    /\ unit = <<1>>
    /\ state.status \in {"idle", "aborted"}
    /\ state.instruction_count = 1

DivByZeroStep ==
    (/\ Executes
     /\ Opcode = 8 /\ Postfix = 2
     /\ Depth >= 2
     /\ state.stack[Depth] = <<0, 0>>)
    => /\ Returns(Error("RuntimeError"))
       /\ Len(state'.stack) <= Depth
       /\ \A k \in 1..Len(state'.stack) : state'.stack[k] = state.stack[k]

SetPixelStep ==
    (/\ Executes
     /\ Opcode = 14 /\ Postfix = 3
     /\ Depth >= 2)
    => LET color == state.stack[Depth]
           index == state.stack[Depth - 1]
           i == index[1] * 65536 + index[2]
       IN  /\ state'.stack = SubSeq(state.stack, 1, Depth - 1)
           /\ Len(state'.vm.strip) = Len(state.vm.strip)
           /\ IF i < Len(state.vm.strip)
              THEN /\ state'.status = "running"
                   /\ state'.vm.strip[i + 1].r = color[2] % 256
                   /\ state'.vm.strip[i + 1].g = color[2] \div 256
                   /\ state'.vm.strip[i + 1].b = color[1] % 256
                   /\ \A k \in 1..Len(state.vm.strip) :
                         k # i + 1 => state'.vm.strip[k] = state.vm.strip[k]
              ELSE /\ Returns(Error("RuntimeError"))
                   /\ state'.vm.strip = state.vm.strip

\* C18: set_pixel on [.., index, color] pops color and leaves index on top;
\* with index below the strip length it sets that pixel to the three low
\* bytes of color and changes no other pixel nor the length; otherwise run()
\* returns RuntimeError and the strip is as it was.
C18_SetPixel == [][SetPixelStep]_vars

\* the second pixel of a longer strip was written, the first left dark
C18_Witness ==
    /\ Len(state.vm.strip) >= 2
    /\ state.vm.strip[2] = ColorMiddleLayer_new(255, 0, 128, 0)
    /\ state.vm.strip[1] = RGBW_BLACK
    /\ state.stack = <<u32(9), u32(1)>>

GetPixelStep ==
    (/\ Executes
     /\ Opcode = 14 /\ Postfix = 6
     /\ Depth >= 1
     /\ state.stack[Depth][1] * 65536 + state.stack[Depth][2] < Len(state.vm.strip))
    => LET pixel == state.vm.strip[state.stack[Depth][2] + 1]
       IN  /\ state'.status = "running"
           /\ state'.stack =
                 Append(SubSeq(state.stack, 1, Depth - 1),
                        <<pixel.b, pixel.g * 256 + pixel.r>>)

\* C19: get_pixel pops an index i and pushes the colour of pixel i packed as
\* 0x00BBGGRR, so that after set_pixel wrote the word c to pixel i it pushes
\* c & 0x00FFFFFF.
C19_GetPixel == [][GetPixelStep]_vars

\* get_pixel has run on the pixel that set_pixel wrote
C19_Witness ==
    /\ unit = Pushb(9) \o Pushb(0) \o Pushi(<<1, 2, 3, 0>>) \o <<227, 230, 228>>
    /\ Len(state.vm.strip) >= 1
    /\ state.pc = 11
    /\ state.instruction_count = 5
    /\ state.status = "running"

JumpStep ==
    (/\ Executes
     /\ Opcode \in {5, 6}
     /\ state.pc + 2 < Len(state.program)
     /\ Depth >= 1)
    => LET target == state.program[state.pc + 2] + 256 * state.program[state.pc + 3]
           zero == state.stack[Depth] = <<0, 0>>
       IN  /\ state'.status = "running"
           /\ state'.stack = state.stack
           /\ state'.pc = IF zero = (Opcode = 5) THEN target ELSE state.pc + 3

\* C20: JZ sets pc to its little-endian target exactly when the top of the
\* stack is zero, JNZ exactly when it is not, and otherwise pc advances by 3;
\* the stack, the tested top included, stays as it is.
C20_ConditionalJump == [][JumpStep]_vars

\* JZ jumped over one instruction on a zero that is still on the stack
C20_Witness ==
    /\ unit = Pushb(0) \o <<80, 6, 0, 16, 16>>
    /\ state.pc = 6
    /\ state.stack = <<ZERO>>
    /\ state.instruction_count = 2

(***************************************************************************)
(* push(b) on a new program, and the bytes it emitted run on the VM.       *)
(* `unit` is the word b.                                                   *)
(***************************************************************************)
PushWords ==
    {<<hi, lo>> : hi \in {0, 1, 255, 256, 4660, 65535},
                  lo \in {0, 1, 127, 255, 256, 22136, 65535}}

InitPush ==
    /\ unit \in PushWords
    /\ overflow_checks \in BOOLEAN
    /\ out = NoProgram
    /\ state = NoState
    /\ host = Host_new(MaxTake)
    /\ state2 = NoState
    /\ host2 = Host_new(0)

\* Program::new().push(b)
Push ==
    /\ out = NoProgram
    /\ out' = Program_push(Program_new, unit)
    /\ UNCHANGED <<state, host, state2, host2, overflow_checks, unit>>

NextPush == Push \/ Start \/ RunCall \/ RunStep

SpecPush == InitPush /\ [][NextPush]_vars

\* the shortest of the three encodings of the word b = hi * 2^16 + lo
ShortestPush(b) ==
    IF b[1] = 0 /\ b[2] = 0 THEN <<16>>
    ELSE IF b[1] = 0 /\ b[2] <= 255 THEN <<17, b[2]>>
    ELSE <<49, b[2] % 256, b[2] \div 256, b[1] % 256, b[1] \div 256>>

\* C21: push(b) emits PUSHB 0 for b = 0, PUSHB 1 and the byte for
\* 0 < b <= 0xFF, PUSHI 1 and the four little-endian bytes otherwise; run on
\* the VM, the emitted bytes are one instruction that leaves exactly b on the
\* stack and pc at the encoded length (1, 2 or 5).
C21_PushEncoding ==
    /\ out # NoProgram =>
          /\ out.err = ""
          /\ out.code = ShortestPush(unit)
          /\ Len(out.code) \in {1, 2, 5}
    /\ state.status # "unstarted" =>
          /\ state.status # "aborted"
          /\ state.instruction_count <= 1
          /\ state.instruction_count = 0 => state.stack = <<>> /\ state.pc = 0
          /\ state.instruction_count = 1 =>
                state.stack = <<unit>> /\ state.pc = Len(ShortestPush(unit))

\* 0x12345678 went through PUSHI and the program ended
C21_Witness ==
    /\ unit = <<4660, 22136>>
    /\ out.code = <<49, 120, 86, 52, 18>>
    /\ state.stack = <<unit>>
    /\ state.pc = 5
    /\ state.status = "idle"
    /\ state.outcome = Ended

(***************************************************************************)
(* Programs made with the builder and run on the VM: a client that makes a *)
(* fixed sequence of builder calls on a new program and starts the result  *)
(* on a VM with the default configuration.  `unit` is the sequence of      *)
(* calls.                                                                  *)
(***************************************************************************)
MaxDepth == 16       \* values pushed before a SWAP

\* push(1), ..., push(k)
pushes(k) == [i \in 1..k |-> Plain("push", i)]

SwapPrograms == {pushes(k) \o <<Plain("swap", n)>> : k \in 1..MaxDepth, n \in 0..POSTFIX_MAX}

MaxCount == 3        \* counters 0..MaxCount on entry to a repeat

\* loop bodies that leave the stack as deep as they found it and do not write
\* the counter
RepeatBodies ==
    {<<>>,
     <<Plain("user", UserCommand.BLIT)>>,
     <<Plain("peek", 0), Plain("pop", 1)>>,
     <<Plain("push", HALF + 258), Plain("unary", Unary.NOT), Plain("pop", 1)>>,
     <<Structured("if_not_zero", <<Plain("user", UserCommand.BLIT)>>)>>,
     <<Structured("if_zero", <<Plain("user", UserCommand.BLIT)>>), Plain("special", Special.DUMP)>>}

\* push(N); repeat(body)
RepeatPrograms ==
    {<<Plain("push", N), Structured("repeat", body)>> : N \in 0..MaxCount, body \in RepeatBodies}

BuiltPrograms == SwapPrograms \cup RepeatPrograms

InitBuilt ==
    /\ unit \in BuiltPrograms
    /\ overflow_checks \in BOOLEAN
    /\ out = NoProgram
    /\ state = NoState
    /\ host = Host_new(MaxTake)
    /\ state2 = NoState
    /\ host2 = Host_new(0)

\* the client's calls on Program::new(), in order
Build ==
    /\ out = NoProgram
    /\ out' = build(unit, Program_new)
    /\ UNCHANGED <<state, host, state2, host2, overflow_checks, unit>>

NextBuilt == Build \/ StartDefault \/ RunCall \/ RunStep

SpecBuilt == InitBuilt /\ [][NextBuilt]_vars

SwapStep ==
    \A n \in 0..POSTFIX_MAX :
        (/\ Executes
         /\ unit[Len(unit)] = Plain("swap", n)
         /\ state.pc = Len(state.program) - 1
         /\ n < Depth)
        => /\ state.program[state.pc + 1] = 144 + n
           /\ state'.status = "running"
           /\ state'.pc = state.pc + 1
           /\ Len(state'.stack) = Depth
           /\ state'.stack[Depth] = state.stack[Depth - n]
           /\ state'.stack[Depth - n] = state.stack[Depth]
           /\ \A k \in 1..Depth :
                 k \notin {Depth, Depth - n} => state'.stack[k] = state.stack[k]

Iterator_next(outcome) ==
    CASE outcome.tag = "Ended" -> [item |-> "None", err |-> "", frame |-> <<>>]
      [] outcome.tag = "BLIT" -> [item |-> "Some(Ok)", err |-> "", frame |-> outcome.frame]
      [] outcome.tag = "Error" -> [item |-> "Some(Err)", err |-> outcome.err, frame |-> <<>>]

\* pc is past the last byte
PastTheEnd == state.pc >= Len(state.program)

\* the byte at pc has a prefix from 0xA to 0xD
NoPrefix == ~PastTheEnd /\ state.program[state.pc + 1] \div 16 \in 10..13

\* an instruction limit is set and reached
LimitReached ==
    \/ /\ state.config.global_instruction_limit # None
       /\ state.instruction_count >= state.config.global_instruction_limit
    \/ /\ state.config.local_instruction_limit # None
       /\ state.local_instruction_count >= state.config.local_instruction_limit

EndedUnlessLimitStep ==
    (state.status = "running" /\ state' # state)
    => /\ Returns(Ended) <=> (PastTheEnd \/ (NoPrefix /\ ~LimitReached))
       /\ Returns(Ended) =>
             /\ Iterator_next(state'.outcome).item = "None"
             /\ NothingExecuted

\* C23: an iteration of run() returns Ended exactly when pc is past the last
\* byte of the code, or no instruction limit is reached and the byte at pc
\* has no defined prefix; the iterator then gives None, and no instruction
\* was executed.
C23_EndedUnlessLimit == [][EndedUnlessLimitStep]_vars

\* PUSHB 0 was executed and the byte 0xB0 after it ended the program
C23_Witness ==
    /\ unit = <<16, 176>>
    /\ state.status = "idle"
    /\ state.outcome = Ended
    /\ state.pc = 1
    /\ state.stack = <<ZERO>>
    /\ host.outcomes = <<Ended>>

EndedStep ==
    (state.status = "running" /\ state' # state)
    => /\ Returns(Ended) <=> (PastTheEnd \/ NoPrefix)
       /\ Returns(Ended) => Iterator_next(state'.outcome).item = "None"

\* C23 as stated: run() returns Ended exactly when pc is past the last byte
\* or the byte at pc has no defined prefix, and the iterator then gives None.
C23_Ended == [][EndedStep]_vars

(***************************************************************************)
(* The host of examples/dummy_client.rs, which restarts the program: the   *)
(* host of SpecVM with reset(None) among its calls.  A restart counts      *)
(* against the calls the host makes.                                       *)
(***************************************************************************)
\* variant: stop hands back a VM whose strip is dark
stop_dark(s) ==
    [vm |-> [s.vm EXCEPT !.strip = DummyLedStrip_new(Len(@))],
     config |-> s.config, program |-> s.program]

\* VMState::stop: (self.vm, self.config, self.program)
stop(s) == [vm |-> s.vm, config |-> s.config, program |-> s.program]

\* Restart::reset(self, None)
reset(s) == VM_start(stop(s).vm, stop(s).program, stop(s).config)

Restart ==
    /\ state.status = "idle"
    /\ host.take > 0
    /\ state' = reset(state)
    /\ host' = [host EXCEPT !.take = @ - 1]
    /\ UNCHANGED <<state2, host2, overflow_checks, unit, out>>

NextRestart == Start \/ RunCall \/ RunStep \/ Restart

SpecRestart == InitVM /\ [][NextRestart]_vars

RestartStep ==
    (/\ state.status = "idle"
     /\ state'.status = "idle"
     /\ host'.take = host.take - 1)
    => /\ state'.pc = 0
       /\ state'.stack = <<>>
       /\ state'.instruction_count = 0
       /\ Len(state'.vm.strip) = Len(state.vm.strip)
       /\ \A i \in 1..Len(state.vm.strip) : state'.vm.strip[i] = state.vm.strip[i]
       /\ state'.config.global_instruction_limit = state.config.global_instruction_limit
       /\ state'.config.local_instruction_limit = state.config.local_instruction_limit
       /\ state'.program = state.program

\* C24: stop() followed by start() with the VM, the state config and the
\* program that stop() returned gives a state with pc 0, an empty stack and
\* instruction count 0; the strip's length, every pixel's colour and both
\* limits are what they were before stop().
C24_Restart == [][RestartStep]_vars

\* restarted after the frame: the written pixel kept its colour, and pc, the
\* stack and the count are those of a new state
C24_Witness ==
    /\ unit = Pushb(9) \o Pushb(0) \o Pushi(<<1, 2, 3, 0>>) \o <<227, 230, 228>>
    /\ Len(host.outcomes) = 1
    /\ host.outcomes[1].tag = "BLIT"
    /\ host.take = MaxTake - 2
    /\ state.status = "idle"
    /\ state.pc = 0
    /\ state.stack = <<>>
    /\ state.instruction_count = 0
    /\ state.vm.strip[1] = ColorMiddleLayer_new(1, 2, 3, 0)
    /\ state.config = StateConfig(None, None)

\* the word of a count
Word(n) == <<(n \div 65536) % 65536, n % 65536>>

DeterministicTimeStep ==
    (/\ Executes
     /\ state.vm.deterministic
     /\ Opcode = 14
     /\ Postfix \in {UserCommand.GET_WALL_TIME, UserCommand.GET_PRECISE_TIME})
    => /\ state'.status = "running"
       /\ state'.pc = state.pc + 1
       /\ state'.instruction_count = state.instruction_count + 1
       /\ state'.stack =
             Append(state.stack,
                    IF Postfix = UserCommand.GET_PRECISE_TIME
                    THEN Word(state'.instruction_count)
                    ELSE Word(state'.instruction_count \div 10))

\* C25: in deterministic mode get_precise_time pushes the state's
\* instruction_count, which counts the instructions of every run() call of
\* this state, the one being executed included, and get_wall_time pushes
\* instruction_count / 10 rounded down; the clock the host could read has no
\* part in either.
C25_DeterministicTime == [][DeterministicTimeStep]_vars

\* get_precise_time, the eighth instruction of the state and the fifth of
\* its second run() call, pushed 8
C25_Witness ==
    /\ unit = <<16, 16, 228, 16, 16, 16, 16, 226, 225>>
    /\ state.vm.deterministic
    /\ Len(host.outcomes) = 1
    /\ state.instruction_count = 8
    /\ state.local_instruction_count = 5
    /\ state.stack[7] = Word(8)

RandomIntStep ==
    (/\ Executes
     /\ Opcode = 14 /\ Postfix = UserCommand.RANDOM_INT
     /\ Depth >= 1)
    => IF state.stack[Depth] # <<0, 0>>
       THEN /\ state'.status = "running"
            /\ Len(state'.stack) = Depth
            /\ \A k \in 1..(Depth - 1) : state'.stack[k] = state.stack[k]
            /\ \/ state'.stack[Depth][1] < state.stack[Depth][1]
               \/ /\ state'.stack[Depth][1] = state.stack[Depth][1]
                  /\ state'.stack[Depth][2] < state.stack[Depth][2]
       ELSE /\ state'.status = "idle"
            /\ state'.outcome = Error("RuntimeError")

\* C26: random_int replaces the bound n on top of the stack by one value r
\* with 0 <= r < n when n > 0, the depth staying as it was; with n = 0 run()
\* returns Error(RuntimeError) and the VM does not abort.
C26_RandomInt == [][RandomIntStep]_vars

\* random_int has run on the bound 0
C26_Witness ==
    /\ unit = <<17, 9, 17, 0, 229, 229>>
    /\ state.instruction_count = 3
    /\ state.status \in {"idle", "aborted"}

RandomIntPositiveStep ==
    (/\ Executes
     /\ Opcode = 14 /\ Postfix = UserCommand.RANDOM_INT
     /\ Depth >= 1
     /\ state.stack[Depth] # <<0, 0>>)
    => /\ state'.status = "running"
       /\ Len(state'.stack) = Depth
       /\ \A k \in 1..(Depth - 1) : state'.stack[k] = state.stack[k]
       /\ \/ state'.stack[Depth][1] < state.stack[Depth][1]
          \/ /\ state'.stack[Depth][1] = state.stack[Depth][1]
             /\ state'.stack[Depth][2] < state.stack[Depth][2]

\* random_int on a bound n > 0: one value below n takes the place of n
RandomIntPositive == [][RandomIntPositiveStep]_vars

(***************************************************************************)
(* The strip resized between programs: a host that holds a DummyLedStrip   *)
(* with pixels of any colour and calls set_length on it.  `unit` is the    *)
(* buffer, `out` the call last made and the buffer it was made on.         *)
(***************************************************************************)
MaxStrip == 3        \* strip lengths 0..MaxStrip before the first resize
MaxResizes == 2      \* set_length calls one host makes

StripColors ==
    {RGBW_BLACK, ColorMiddleLayer_new(255, 0, 128, 0), ColorMiddleLayer_new(1, 2, 3, 0)}

InitStrip ==
    /\ unit \in UNION {[1..k -> StripColors] : k \in 0..MaxStrip}
    /\ out = [old |-> <<>>, n |-> None, calls |-> 0]
    /\ overflow_checks = TRUE
    /\ state = NoState
    /\ host = Host_new(0)
    /\ state2 = NoState
    /\ host2 = Host_new(0)

\* strip.set_length(n)
SetLength ==
    /\ out.calls < MaxResizes
    /\ \E n \in 0..(MaxStrip + 1) :
          /\ unit' = set_length(unit, n)
          /\ out' = [old |-> unit, n |-> n, calls |-> out.calls + 1]
    /\ UNCHANGED <<state, host, state2, host2, overflow_checks>>

NextStrip == SetLength

SpecStrip == InitStrip /\ [][NextStrip]_vars

\* C27: after set_length(n) the strip has length n, every index below the
\* smaller of the old length and n has the colour it had, and every index
\* from the old length up to n - 1 is black.
C27_SetLength ==
    out.n # None =>
        /\ Len(unit) = out.n
        /\ \A i \in 1..Len(unit) :
              unit[i] = IF i <= Len(out.old) THEN out.old[i] ELSE RGBW_BLACK

\* a strip of two coloured pixels was extended to four
C27_Witness ==
    /\ out.n = 4
    /\ out.old = <<ColorMiddleLayer_new(255, 0, 128, 0), ColorMiddleLayer_new(1, 2, 3, 0)>>
    /\ unit = out.old \o <<RGBW_BLACK, RGBW_BLACK>>

\* the instructions one execution of a loop body takes while the counter is
\* not zero, and the bytes of the body
BodySteps(body) ==
    CASE body = <<>> -> 0
      [] body = <<Plain("user", UserCommand.BLIT)>> -> 1
      [] body = <<Plain("peek", 0), Plain("pop", 1)>> -> 2
      [] body[1] = Plain("push", HALF + 258) -> 3
      [] body[1].f = "if_not_zero" -> 2
      [] body[1].f = "if_zero" -> 2
BodyBytes(body) ==
    CASE body = <<>> -> 0
      [] body = <<Plain("user", UserCommand.BLIT)>> -> 1
      [] body = <<Plain("peek", 0), Plain("pop", 1)>> -> 2
      [] body[1] = Plain("push", HALF + 258) -> 7
      [] body[1].f = "if_not_zero" -> 4
      [] body[1].f = "if_zero" -> 5

\* where the run stands in push(N); repeat(body): `at(a, c, k)` is pc = a
\* after c instructions with the counter k alone on the stack
RepeatProgress(N, steps, bytes) ==
    LET start == IF N = 0 THEN 1 ELSE 2
        round == steps + 3
        at(a, c, k) ==
            /\ state.pc = a
            /\ state.instruction_count = c
            /\ state.stack = <<<<0, k>>>>
    IN  \* before push(N)
        \/ state.pc = 0 /\ state.instruction_count = 0 /\ state.stack = <<>>
        \* at the JZ, j bodies done
        \/ \E j \in 0..N : at(start, 1 + j * round, N - j)
        \* inside the j-th body, the counter N - j + 1 on top
        \/ \E j \in 1..N :
              /\ state.pc \in (start + 3)..(start + 3 + bytes - 1)
              /\ state.instruction_count \in
                    (2 + (j - 1) * round)..(2 + (j - 1) * round + steps - 1)
              /\ state.stack # <<>>
              /\ state.stack[1] = <<0, N - j + 1>>
        \* at the DEC after the j-th body: the counter is not zero
        \/ \E j \in 1..N :
              at(start + 3 + bytes, 2 + (j - 1) * round + steps, N - j + 1)
        \* at the JMP back
        \/ \E j \in 1..N : at(start + 3 + bytes + 1, j * round, N - j)
        \* past the loop: N bodies done, the counter 0 on top
        \/ at(start + 3 + bytes + 4, 2 + N * round, 0)

\* C28: in push(N); repeat(body), with a body that leaves the depth as it
\* found it and does not write the counter, the body is executed exactly N
\* times, with the counter N, N-1, ..., 1 on the stack below whatever the body
\* pushes; DEC is only ever applied to a counter that is not zero; and the run
\* leaves the loop with the counter 0 on top of the stack.
C28_Repeat ==
    (unit \in RepeatPrograms /\ state.status # "unstarted")
    => /\ state.status \in {"idle", "running"}
       /\ state.outcome.tag # "Error"
       /\ RepeatProgress(unit[1].n, BodySteps(unit[2].body), BodyBytes(unit[2].body))
       /\ (state.pc < Len(state.program) /\ state.program[state.pc + 1] = 113)
             => state.stack[Len(state.stack)] # <<0, 0>>

\* three rounds of a three-instruction body are done and the program ended
C28_Witness ==
    /\ unit = <<Plain("push", 3),
                Structured("repeat", <<Plain("push", HALF + 258), Plain("unary", Unary.NOT),
                                       Plain("pop", 1)>>)>>
    /\ state.status = "idle"
    /\ state.outcome = Ended
    /\ state.instruction_count = 20
    /\ state.stack = <<ZERO>>
    /\ state.pc = 16

(***************************************************************************)
(* Conditionals compiled and run: `x = 7; if (c) {A} else {B}; blit;`      *)
(* and the same without else.  Every arm A shows one frame and every arm B *)
(* two, so the frames the host receives tell which arms ran.  `unit` is    *)
(* the source program.                                                     *)
(***************************************************************************)
Conditions ==
    {Literal(ZERO), Literal(ONE), Literal(u32(HALF)),
     ExprUser(UserCommand.GET_LENGTH), Load("x")}

ThenArms ==
    {<<NodeUser(UserCommand.BLIT)>>,
     <<NewVarAssignment("z", Literal(ONE)), NodeUser(UserCommand.BLIT)>>}

ElseArms ==
    {<<NodeUser(UserCommand.BLIT), NodeUser(UserCommand.BLIT)>>,
     <<NodeUser(UserCommand.BLIT), NodeExpression(Load("x")), NodeUser(UserCommand.BLIT)>>}

IfPrograms ==
    {Statements(<<NewVarAssignment("x", Literal(u32(7))), s, NodeUser(UserCommand.BLIT)>>) :
        s \in {If(c, A) : c \in Conditions, A \in ThenArms}
              \cup {IfElse(c, A, B) : c \in Conditions, A \in ThenArms, B \in ElseArms}}

InitIf ==
    /\ unit \in IfPrograms
    /\ overflow_checks \in BOOLEAN
    /\ out = NoProgram
    /\ state = NoState
    /\ host = Host_new(MaxTake + 1)
    /\ state2 = NoState
    /\ host2 = Host_new(0)

NextIf == CompileSource \/ StartDefault \/ RunCall \/ RunStep

SpecIf == InitIf /\ [][NextIf]_vars

\* the value of the condition of the program is not zero
ConditionHolds ==
    CASE unit.stmts[2].e.k = "Literal" -> unit.stmts[2].e.v # <<0, 0>>
      [] unit.stmts[2].e.k = "User" -> Len(state.vm.strip) # 0
      [] unit.stmts[2].e.k = "Load" -> TRUE

\* the frames of a run in which exactly the arm chosen by the condition ran,
\* the frame of the closing blit included
FramesOfOneArm ==
    1 + (IF ConditionHolds THEN 1 ELSE IF unit.stmts[2].k = "IfElse" THEN 2 ELSE 0)

\* the frames the host has received
Frames == Cardinality({k \in 1..Len(host.outcomes) : host.outcomes[k].tag = "BLIT"})

\* C29: code compiled from `if (c) {A} else {B}` runs A and not B when c is
\* not zero, B and not A when c is zero; from `if (c) {A}` it runs A exactly
\* when c is not zero; and after the statement the stack is as deep as before
\* it, the condition popped.
C29_OneArm ==
    /\ out # NoProgram => out.err = ""
    /\ state.status # "unstarted" =>
          /\ state.status \in {"idle", "running"}
          /\ state.outcome.tag # "Error"
          /\ Frames <= FramesOfOneArm
          /\ state.outcome = Ended => Frames = FramesOfOneArm /\ state.stack = <<>>
          /\ (state.status = "idle" /\ state.outcome.tag = "BLIT" /\ Frames = FramesOfOneArm)
                => state.stack = <<<<0, 7>>>>

\* on an empty strip `if (get_length) {..} else {..}` showed the two frames
\* of its else arm and the closing one, and ended
C29_Witness ==
    /\ unit.stmts[2].k = "IfElse"
    /\ unit.stmts[2].e = ExprUser(UserCommand.GET_LENGTH)
    /\ Len(state.vm.strip) = 0
    /\ state.outcome = Ended
    /\ Frames = 3
    /\ state.stack = <<>>

(***************************************************************************)
(* Jumps of the structured emitters: a client that loads a program of      *)
(* one-byte instructions with Program::from_binary and then makes calls on *)
(* it, structured emitters nested up to three deep.  `unit` is the length  *)
(* of the loaded code and the calls.                                       *)
(***************************************************************************)
AddressSpace == 65536     \* a jump holds its target in two bytes

\* callbacks nested k deep
RECURSIVE Nested(_)
Nested(k) ==
    IF k = 0 THEN {<<>>, <<Plain("user", UserCommand.BLIT)>>}
    ELSE {<<Plain("special", Special.DUMP), Structured(f, body)>> \o rest :
             f \in StructuredEmitters, body \in Nested(k - 1),
             rest \in {<<>>, <<Plain("push", 300), Plain("pop", 1)>>}}

\* the code loaded first ends at 0, three bytes before a multiple of 256, or
\* six bytes before the end of the address space
JumpPrograms ==
    [filler : {0, 256 - 3}, calls : Nested(1) \cup Nested(2) \cup Nested(3)]
    \cup [filler : {AddressSpace - 6}, calls : Nested(1)]

InitJumps ==
    /\ unit \in JumpPrograms
    /\ out = NoProgram
    /\ overflow_checks = TRUE
    /\ state = NoState
    /\ host = Host_new(0)
    /\ state2 = NoState
    /\ host2 = Host_new(0)

\* Program::from_binary(vec![PUSHB 0; filler]) and the client's calls on it
BuildOn ==
    /\ out = NoProgram
    /\ out' = build(unit.calls, Program_from_binary([i \in 1..unit.filler |-> Prefix.PUSHB]))
    /\ UNCHANGED <<state, host, state2, host2, overflow_checks, unit>>

NextJumps == BuildOn

SpecJumps == InitJumps /\ [][NextJumps]_vars

\* the bytes the instruction at address a takes
InstructionLength(code, a) ==
    CASE code[a + 1] \div 16 = 1 -> 1 + (code[a + 1] % 16)
      [] code[a + 1] \div 16 = 3 -> 1 + 4 * (code[a + 1] % 16)
      [] code[a + 1] \div 16 \in {4, 5, 6} -> 3
      [] OTHER -> 1

\* the addresses at which an instruction starts, from a on, and the end
RECURSIVE Boundaries(_, _)
Boundaries(code, a) ==
    IF a >= Len(code) THEN {a}
    ELSE {a} \cup Boundaries(code, a + InstructionLength(code, a))

\* the jump at address a of the built code: its target is an instruction
\* boundary of the code or its end; a JZ or JNZ jumps forward; a JMP is the
\* back-edge of a loop the calls made and targets that loop's first byte
JumpWellFormed(a, target) ==
    /\ target \in (0..unit.filler) \cup Boundaries(out.code, unit.filler)
    /\ out.code[a + 1] \div 16 \in {5, 6} => target > a
    /\ out.code[a + 1] \div 16 = 4 =>
          /\ target <= a
          /\ \E k \in 1..Len(Expected(unit.calls, unit.filler)) :
                /\ Expected(unit.calls, unit.filler)[k].pc = a
                /\ Expected(unit.calls, unit.filler)[k].name = "JMP"
                /\ Expected(unit.calls, unit.filler)[k].operand = <<target>>

JumpsWellFormed ==
    /\ out.err = ""
    /\ \A i \in 1..unit.filler : out.code[i] = 16
    /\ \A a \in Boundaries(out.code, unit.filler) :
          (a < Len(out.code) /\ out.code[a + 1] \div 16 \in {4, 5, 6})
          => JumpWellFormed(a, out.code[a + 2] + 256 * out.code[a + 3])

\* C30: in a program of fewer than 65536 bytes built with the structured
\* emitters, nested to any depth, every jump targets an instruction boundary
\* of the final buffer, at most its length; every JZ and JNZ targets an
\* address above its own; the jumps to an address not above their own are the
\* JMPs that close repeat and repeat_forever, each to the first byte of its
\* own loop.
C30_JumpTargetsWithinSpace ==
    (out # NoProgram /\ Len(out.code) < AddressSpace) => JumpsWellFormed

\* repeat around if_zero around repeat_forever, emitted from address 253 on:
\* JZ 270, JNZ 266, JMP 262 and JMP 254
C30_Witness ==
    /\ unit.filler = 253
    /\ unit.calls =
          <<Plain("special", Special.DUMP),
            Structured("repeat",
              <<Plain("special", Special.DUMP),
                Structured("if_zero",
                  <<Plain("special", Special.DUMP),
                    Structured("repeat_forever", <<Plain("user", UserCommand.BLIT)>>)>>)>>)>>
    /\ Len(out.code) = 270
    /\ SubSeq(out.code, 254, 270) =
          <<241, 80, 14, 1, 241, 96, 10, 1, 241, 228, 64, 6, 1, 113, 64, 254, 0>>

\* C30 as stated, for every program built with the structured emitters,
\* whatever its length.
C30_JumpTargets == out # NoProgram => JumpsWellFormed

(***************************************************************************)
(* Variables read at run time: `let a = 10; let b = 20;` followed by one   *)
(* block that holds one statement reading one variable.  `unit` names the  *)
(* variable, the place of the read inside the statement and the block.     *)
(***************************************************************************)
LoadNames == {"a", "b", "c", "i"}

LoadPlaces ==
    {"statement", "let", "assign", "binary", "unary", "random", "get_pixel",
     "clamp_value", "clamp_min", "clamp_max",
     "set_pixel_index", "set_pixel_red", "set_pixel_green", "set_pixel_blue",
     "set_pixel_alpha", "if", "for"}

LoadBlocks == {"top", "if", "else", "for", "loop", "shadow", "nested"}

\* set_pixel(..) with e as its n-th argument
set_pixel_with(e, n) ==
    NodeUserCall(UserCommand.SET_PIXEL,
        [k \in 1..5 |-> IF k = n THEN e ELSE Literal(u32(k + 100))])

\* the statement that reads e at the place `place`
Place(place, e) ==
    CASE place = "statement" -> NodeExpression(e)
      [] place = "let" -> NewVarAssignment("r", e)
      [] place = "assign" -> VarAssignment("b", e)
      [] place = "binary" ->
            NodeExpression(ExprBinary(ExprUser(UserCommand.GET_LENGTH), Binary.ADD, e))
      [] place = "unary" -> NodeExpression(ExprUnary(Unary.NOT, e))
      [] place = "random" -> NodeExpression(ExprUserCall(UserCommand.RANDOM_INT, <<e>>))
      [] place = "get_pixel" -> NodeExpression(ExprUserCall(UserCommand.GET_PIXEL, <<e>>))
      [] place = "clamp_value" ->
            NodeExpression(Clamp(e, Literal(u32(5)), Literal(u32(200))))
      [] place = "clamp_min" ->
            NodeExpression(Clamp(ExprUser(UserCommand.GET_LENGTH), e, Literal(u32(200))))
      [] place = "clamp_max" ->
            NodeExpression(Clamp(ExprUser(UserCommand.GET_LENGTH), Literal(u32(5)), e))
      [] place = "set_pixel_index" -> set_pixel_with(e, 1)
      [] place = "set_pixel_red" -> set_pixel_with(e, 2)
      [] place = "set_pixel_green" -> set_pixel_with(e, 3)
      [] place = "set_pixel_blue" -> set_pixel_with(e, 4)
      [] place = "set_pixel_alpha" -> set_pixel_with(e, 5)
      [] place = "if" -> If(e, <<NodeUser(UserCommand.BLIT)>>)
      [] place = "for" -> For("k", e, <<>>)

\* the block around the statements ss
Block(within, ss) ==
    CASE within = "top" -> Statements(ss)
      [] within = "if" ->
            If(Literal(u32(77)), <<NewVarAssignment("c", Literal(u32(30)))>> \o ss)
      [] within = "else" ->
            IfElse(Literal(ZERO), <<>>, <<NewVarAssignment("c", Literal(u32(30)))>> \o ss)
      [] within = "for" ->
            For("i", Literal(u32(2)), <<NewVarAssignment("c", Literal(u32(30)))>> \o ss)
      [] within = "loop" ->
            Loop(<<NewVarAssignment("c", Literal(u32(30)))>> \o ss
                 \o <<NodeUser(UserCommand.BLIT)>>)
      [] within = "shadow" ->
            If(Literal(u32(77)),
               <<NewVarAssignment("a", Literal(u32(40))),
                 NewVarAssignment("c", Literal(u32(30)))>> \o ss)
      [] within = "nested" ->
            For("i", Literal(u32(2)),
                <<If(Literal(u32(77)), <<NewVarAssignment("c", Literal(u32(30)))>> \o ss)>>)

\* let a = 10; let b = 20; <block with the statements ss>
InBlock(within, ss) ==
    Statements(<<NewVarAssignment("a", Literal(u32(10))),
                 NewVarAssignment("b", Literal(u32(20))),
                 Block(within, ss)>>)

\* the source in which the statement of u reads e
LoadSource(u, e) == InBlock(u.within, <<Place(u.place, e)>>)

InitLoad ==
    /\ unit \in [name : LoadNames, place : LoadPlaces, within : LoadBlocks]
    /\ overflow_checks = TRUE
    /\ out = NoProgram
    /\ state = NoState
    /\ host = Host_new(MaxTake)
    /\ state2 = NoState
    /\ host2 = Host_new(0)

\* Program::from_source on the source that reads the variable unit.name
CompileLoad ==
    /\ out = NoProgram
    /\ out' = from_source(LoadSource(unit, Load(unit.name)))
    /\ UNCHANGED <<state, host, state2, host2, overflow_checks, unit>>

NextLoad == CompileLoad \/ StartDefault \/ RunCall \/ RunStep

SpecLoad == InitLoad /\ [][NextLoad]_vars

\* the address of the PEEK emitted for the Load: the one byte in which the
\* program differs from the same source with get_length in place of the read
LoadAddress ==
    (CHOOSE k \in 1..Len(out.code) :
        out.code[k] # from_source(LoadSource(unit, ExprUser(UserCommand.GET_LENGTH))).code[k])
    - 1

\* the stack slot, counted from the bottom, of the innermost live variable
\* unit.name at the read: a and b are the first two; a block's condition or
\* counter comes before the variables the block declares
Slot ==
    CASE unit.name = "a" -> IF unit.within = "shadow" THEN 4 ELSE 1
      [] unit.name = "b" -> 2
      [] unit.name = "i" -> 3
      [] unit.name = "c" ->
            CASE unit.within = "loop" -> 3
              [] unit.within \in {"if", "else", "for"} -> 4
              [] unit.within \in {"shadow", "nested"} -> 5

\* the values the variable unit.name takes
Holds ==
    CASE unit.name = "a" -> IF unit.within = "shadow" THEN {u32(40)} ELSE {u32(10)}
      [] unit.name = "b" -> {u32(20)}
      [] unit.name = "c" -> {u32(30)}
      [] unit.name = "i" -> {u32(1), u32(2)}

\* the VM is about to execute the PEEK of the Load
AtLoad ==
    /\ state.status = "running"
    /\ state.pc < Len(state.program)
    /\ Opcode = Prefix.PEEK \div 16
    /\ state.pc = LoadAddress

LoadStep ==
    (AtLoad /\ state' # state)
    => /\ Slot <= Depth
       /\ state.stack[Slot] \in Holds
       /\ Postfix = Depth - Slot
       /\ state'.status = "running"
       /\ state'.stack = Append(state.stack, state.stack[Slot])

\* C31: when the PEEK d emitted for Load(name) executes, d is the distance
\* from the top of the stack to the slot of the innermost live variable
\* called name, and the value of that variable is pushed; wherever the read
\* stands: in a statement, an operand, an argument of random, get_pixel,
\* clamp or set_pixel, a condition or a count, at the top level or inside
\* if, else, for and loop bodies.
C31_LoadDepth == [][LoadStep]_vars

\* `let a = 10; let b = 20; clamp(get_length, 5, b)` has executed the PEEK of
\* its read of b
C31_Witness ==
    /\ unit = [name |-> "b", place |-> "clamp_max", within |-> "top"]
    /\ out.err = ""
    /\ state.status # "unstarted"
    /\ state.instruction_count > 0
    /\ state.pc > LoadAddress

LoadOutsideClampMaxStep == unit.place # "clamp_max" => LoadStep

\* the reads at every place but the third argument of clamp
LoadOutsideClampMax == [][LoadOutsideClampMaxStep]_vars

(***************************************************************************)
(* Assignments compiled and run: `let a = 10; let b = 20;` followed by one *)
(* block that holds `blit; v = e; blit`, so that the host sees the stack   *)
(* before and after the assignment.  `unit` names v, e and the block.      *)
(***************************************************************************)
AssignNames == {"a", "b", "c", "i", "z"}
AssignValues == {"literal", "get_length", "a", "increment", "sum", "clamp"}

\* the expression assigned to the variable called name
Rhs(value, name) ==
    CASE value = "literal" -> Literal(u32(7))
      [] value = "get_length" -> ExprUser(UserCommand.GET_LENGTH)
      [] value = "a" -> Load("a")
      [] value = "increment" -> ExprBinary(Load(name), Binary.ADD, Literal(ONE))
      [] value = "sum" ->
            ExprBinary(Load("b"), Binary.ADD, ExprUser(UserCommand.GET_LENGTH))
      [] value = "clamp" ->
            Clamp(ExprUser(UserCommand.GET_LENGTH), Literal(u32(5)), Literal(u32(200)))

AssignSource(u) ==
    InBlock(u.within,
            <<NodeUser(UserCommand.BLIT),
              VarAssignment(u.name, Rhs(u.value, u.name)),
              NodeUser(UserCommand.BLIT)>>)

InitAssign ==
    /\ unit \in [name : AssignNames, value : AssignValues, within : LoadBlocks]
    /\ overflow_checks = TRUE
    /\ out = NoProgram
    /\ state = NoState
    /\ host = Host_new(MaxTake)
    /\ state2 = NoState
    /\ host2 = Host_new(0)

\* Program::from_source on the source with the assignment
CompileAssign ==
    /\ out = NoProgram
    /\ out' = from_source(AssignSource(unit))
    /\ UNCHANGED <<state, host, state2, host2, overflow_checks, unit>>

NextAssign == CompileAssign \/ StartDefault \/ RunCall \/ RunStep

SpecAssign == InitAssign /\ [][NextAssign]_vars

\* the variable unit.name is defined in the scope of the assignment or in an
\* enclosing one
Defined ==
    \/ unit.name \in {"a", "b"}
    \/ unit.name = "c" /\ unit.within # "top"
    \/ unit.name = "i" /\ unit.within \in {"for", "nested"}

\* the stack at the first blit of the block: a, b, then the block's condition
\* or counter and its variables
Before ==
    <<u32(10), u32(20)>> \o
    CASE unit.within = "top" -> <<>>
      [] unit.within = "if" -> <<u32(77), u32(30)>>
      [] unit.within = "else" -> <<ZERO, u32(30)>>
      [] unit.within = "for" -> <<u32(2), u32(30)>>
      [] unit.within = "loop" -> <<u32(30)>>
      [] unit.within = "shadow" -> <<u32(77), u32(40), u32(30)>>
      [] unit.within = "nested" -> <<u32(2), u32(77), u32(30)>>

\* the value of the assigned expression on the stack Before
Assigned ==
    CASE unit.value = "literal" -> u32(7)
      [] unit.value = "get_length" -> u32(Len(state.vm.strip))
      [] unit.value = "a" -> IF unit.within = "shadow" THEN u32(40) ELSE u32(10)
      [] unit.value = "increment" -> overflowing_add(Before[Slot], ONE).v
      [] unit.value = "sum" -> overflowing_add(u32(20), u32(Len(state.vm.strip))).v
      [] unit.value = "clamp" ->
            IF Len(state.vm.strip) < 5 THEN u32(5)
            ELSE IF Len(state.vm.strip) > 200 THEN u32(200)
            ELSE u32(Len(state.vm.strip))

\* the host has received its n-th frame and nothing since
AtFrame(n) ==
    /\ state.status = "idle"
    /\ Len(host.outcomes) = n
    /\ \A k \in 1..n : host.outcomes[k].tag = "BLIT"

MaxPushes == 3       \* values pushed before the primitive

PrimitiveCalls ==
    {Plain("push", n) : n \in {0, 10, HALF + 258}}
    \cup {Plain(f, n) : f \in {"pop", "peek", "swap"}, n \in 0..(MaxPushes + 1)}
    \cup {Plain("unary", n) : n \in 0..5}
    \cup {Plain("binary", n) : n \in 0..15}
    \cup {Plain("user", n) : n \in 0..6}

EmitPrograms == {pushes(k) \o <<c>> : k \in 0..MaxPushes, c \in PrimitiveCalls}

InitEmit ==
    /\ unit \in EmitPrograms
    /\ overflow_checks \in BOOLEAN
    /\ out = NoProgram
    /\ state = NoState
    /\ host = Host_new(MaxTake)
    /\ state2 = NoState
    /\ host2 = Host_new(0)

NextEmit == Build \/ StartDefault \/ RunCall \/ RunStep

SpecEmit == InitEmit /\ [][NextEmit]_vars

\* the program as it was before the last call
Pushed == build(SubSeq(unit, 1, Len(unit) - 1), Program_new)

\* the last call
Primitive == unit[Len(unit)]

\* the change of depth the emitters are said to account for
Delta(c) ==
    CASE c.f \in {"push", "peek"} -> 1
      [] c.f = "pop" -> 0 - c.n
      [] c.f \in {"swap", "unary"} -> 0
      [] c.f = "binary" -> -1
      [] c.f = "user" ->
            CASE c.n \in {UserCommand.GET_LENGTH, UserCommand.GET_WALL_TIME,
                          UserCommand.GET_PRECISE_TIME} -> 1
              [] c.n = UserCommand.SET_PIXEL -> -1
              [] c.n \in {UserCommand.BLIT, UserCommand.RANDOM_INT,
                          UserCommand.GET_PIXEL} -> 0

\* the step executed an instruction and run() reported no error
Succeeds ==
    \/ state'.status = "running"
    \/ state'.status = "idle" /\ state'.outcome.tag = "BLIT"

EmitStep ==
    (/\ Executes
     /\ state.pc = Len(Pushed.code)
     /\ Succeeds)
    => /\ out.stack_size - Pushed.stack_size = Delta(Primitive)
       /\ Len(state'.stack) - Depth = Delta(Primitive)

\* C33: for push, pop n, peek n, swap n, unary, binary and each user
\* operation, the change the emitter makes to stack_size is the change of the
\* depth of the VM's stack when the emitted instruction executes without
\* error: push +1, pop n -n, peek +1, swap 0, unary 0, binary -1, get_length,
\* get_wall_time and get_precise_time +1, set_pixel -1, blit, random_int and
\* get_pixel 0.
C33_StackDelta == [][EmitStep]_vars

\* push(1); push(2); user(SET_PIXEL) has written pixel 1 of a strip of two
\* and left the index on the stack
C33_Witness ==
    /\ unit = pushes(2) \o <<Plain("user", UserCommand.SET_PIXEL)>>
    /\ out.stack_size = 1
    /\ state.status = "running"
    /\ state.instruction_count = 3
    /\ state.stack = <<u32(1)>>
    /\ Len(state.vm.strip) = 2

(***************************************************************************)
(* Two programs that differ in the alpha argument of set_pixel only:       *)
(* `let x = 9; set_pixel(i, r, g, b, a); blit` with two literals a, or     *)
(* `let x = a; set_pixel(i, r, g, b, x); blit` with two values of x, each  *)
(* compiled and run by its own host on strips of the same length.  `unit`  *)
(* holds the arguments, `alpha` for the first program and `other` for the  *)
(* second.                                                                 *)
(***************************************************************************)
PixelArguments ==
    [i : {0, 1}, r : {255, 263}, g : {0, 258}, b : {511},
     alpha : {0, 1, 255, 256}, other : {0, 1, 255, 256},
     form : {"literal", "variable"}]

PixelSource(u, alpha) ==
    Statements(<<
        NewVarAssignment("x", Literal(u32(IF u.form = "literal" THEN 9 ELSE alpha))),
        NodeUserCall(UserCommand.SET_PIXEL,
            <<Literal(u32(u.i)), Literal(u32(u.r)), Literal(u32(u.g)), Literal(u32(u.b)),
              IF u.form = "literal" THEN Literal(u32(alpha)) ELSE Load("x")>>),
        NodeUser(UserCommand.BLIT)>>)

InitPixel ==
    /\ unit \in PixelArguments
    /\ overflow_checks = TRUE
    /\ out = NoProgram
    /\ state = NoState
    /\ host = Host_new(MaxTake)
    /\ state2 = NoState
    /\ host2 = Host_new(MaxTake)

\* Program::from_source on the first program
CompilePixel ==
    /\ out = NoProgram
    /\ out' = from_source(PixelSource(unit, unit.alpha))
    /\ UNCHANGED <<state, host, state2, host2, overflow_checks, unit>>

\* each host starts its program; the second one compiles it first
StartPixels ==
    /\ out.err = ""
    /\ state.status = "unstarted"
    /\ state2.status = "unstarted"
    /\ from_source(PixelSource(unit, unit.other)).err = ""
    /\ \E len \in 0..MaxLen :
          /\ state' = VM_start(VM_new(len, FALSE), out.code, StateConfig(None, None))
          /\ state2' = VM_start(VM_new(len, FALSE),
                                from_source(PixelSource(unit, unit.other)).code,
                                StateConfig(None, None))
    /\ UNCHANGED <<host, host2, overflow_checks, unit, out>>

NextPixel == CompilePixel \/ StartPixels \/ RunCall \/ RunStep \/ RunCall2 \/ RunStep2

SpecPixel == InitPixel /\ [][NextPixel]_vars

\* s is about to execute USER set_pixel, in the first call of its host h
AtSetPixel(s, h) ==
    /\ s.status = "running"
    /\ h.outcomes = <<>>
    /\ s.pc < Len(s.program)
    /\ s.program[s.pc + 1] = Prefix.USER + UserCommand.SET_PIXEL

\* the packed colour word: the top of the stack of s
Packed(s) == s.stack[Len(s.stack)]

\* the strip of n pixels after set_pixel(i, r, g, b, _)
Lit(n) ==
    [k \in 1..n |->
        IF k = unit.i + 1
        THEN ColorMiddleLayer_new(unit.r % 256, unit.g % 256, unit.b % 256, 0)
        ELSE RGBW_BLACK]

\* what the host h of s has received is what set_pixel(i, r, g, b, _); blit
\* gives: the frame with pixel i written and then the end, or the error of
\* an index outside the strip
PixelWritten(s, h) ==
    /\ (h.outcomes = <<>> \/ unit.i < Len(s.vm.strip)) => s.status # "aborted"
    /\ Len(h.outcomes) >= 1 =>
          h.outcomes[1] = IF unit.i < Len(s.vm.strip)
                          THEN BLIT(Lit(Len(s.vm.strip)))
                          ELSE Error("RuntimeError")
    /\ (Len(h.outcomes) >= 2 /\ unit.i < Len(s.vm.strip)) => h.outcomes[2] = Ended

\* the two hosts have received the same outcomes, call for call, up to the
\* first error
SameFrames ==
    \A k \in 1..Len(host.outcomes) :
        (/\ k <= Len(host2.outcomes)
         /\ \A j \in 1..(k - 1) : host.outcomes[j].tag # "Error")
        => host.outcomes[k] = host2.outcomes[k]

\* the colour word of s holds r, g and b in its three low bytes and the
\* alpha argument in its high byte
PackedWithAlpha(s, h, alpha) ==
    AtSetPixel(s, h) =>
       /\ Len(s.stack) >= 2
       /\ s.stack[Len(s.stack) - 1] = u32(unit.i)
       /\ le_bytes(Packed(s)) = <<unit.r % 256, unit.g % 256, unit.b % 256, alpha % 256>>

GlobalLimitError == Error("GlobalInstructionLimitReached")
LocalLimitError == Error("LocalInstructionLimitReached")

\* the last run() call that returned, returned the global limit error
AfterGlobalLimitStep ==
    (state.outcome = GlobalLimitError /\ state' # state)
    => /\ NothingExecuted
       /\ state'.outcome = GlobalLimitError
       /\ state.status = "idle" => state'.status = "running"
       /\ state.status = "running" => Returns(GlobalLimitError)

\* the run() call entered after one that returned the local limit error
AfterLocalLimitStep ==
    /\ (state.status = "idle" /\ state.outcome = LocalLimitError /\ state' # state)
        => /\ state'.status = "running"
           /\ NothingExecuted
           /\ state'.local_instruction_count = 0
    /\ (/\ state.status = "running"
        /\ state.outcome = LocalLimitError
        /\ state.local_instruction_count = 0
        /\ state' # state)
        => IF GlobalLimitReached(state) THEN Returns(GlobalLimitError) /\ NothingExecuted
           ELSE IF state.config.local_instruction_limit = 0
                THEN Returns(LocalLimitError) /\ NothingExecuted
                ELSE /\ state'.instruction_count = state.instruction_count + 1
                     /\ state'.local_instruction_count = 1
                     /\ state'.status = "idle" => state'.outcome # LocalLimitError

\* C35: after run() has returned GlobalInstructionLimitReached, every later
\* run() call returns it again, executes no instruction and leaves pc, the
\* stack and the strip as they were; after LocalInstructionLimitReached the
\* next run() call starts at the same pc and stack with a local count of
\* zero, and executes the instruction at pc unless a limit forbids it.
C35_AfterLimit == [][AfterGlobalLimitStep /\ AfterLocalLimitStep]_vars

\* under a local limit of 1 and a global limit of 2, the first call returned
\* the local limit error after one instruction, the second executed one more
\* and returned the global limit error, and so did the third
C35_Witness ==
    /\ host.outcomes = <<LocalLimitError, GlobalLimitError, GlobalLimitError>>
    /\ state.config = StateConfig(2, 1)
    /\ state.instruction_count = 2
    /\ state.status = "idle"
    /\ state.pc > 0

(***************************************************************************)
(* Loops compiled and run: `let a = 10; let b = 20;` followed by a `loop`, *)
(* a `for` or a `for` inside a `loop`, around one of a family of bodies.   *)
(* `unit` names the loop and the body.                                     *)
(***************************************************************************)
LoopKinds == {"loop", "for", "for in loop"}

LoopBodies ==
    {"empty", "variable", "expression", "if", "set_pixel", "random", "get_pixel",
     "inner for", "clamp", "clamp to zero"}

LoopBody(body) ==
    CASE body = "empty" -> <<>>
      [] body = "variable" ->
            <<NewVarAssignment("c", Literal(u32(30))),
              VarAssignment("c", ExprBinary(Load("c"), Binary.ADD, Literal(ONE))),
              VarAssignment("a", Load("c"))>>
      [] body = "expression" ->
            <<NodeExpression(ExprBinary(ExprUser(UserCommand.GET_LENGTH), Binary.ADD, Load("a")))>>
      [] body = "if" ->
            <<IfElse(ExprUser(UserCommand.GET_LENGTH),
                     <<NewVarAssignment("d", Literal(ONE))>>,
                     <<NodeSpecial(Special.DUMP)>>),
              If(Load("b"), <<NewVarAssignment("d", Load("a")), NodeExpression(Load("d"))>>)>>
      [] body = "set_pixel" ->
            <<NodeUserCall(UserCommand.SET_PIXEL,
                <<Literal(ZERO), Load("a"), Load("b"), Literal(ONE), Literal(ZERO)>>)>>
      [] body = "random" ->
            <<NewVarAssignment("c", ExprUserCall(UserCommand.RANDOM_INT, <<Load("a")>>))>>
      [] body = "get_pixel" ->
            <<NodeExpression(ExprUserCall(UserCommand.GET_PIXEL, <<Literal(ZERO)>>))>>
      [] body = "inner for" ->
            <<For("k", Literal(u32(2)), <<NodeExpression(Load("k"))>>)>>
      [] body = "clamp" ->
            <<NodeExpression(
                Clamp(ExprUser(UserCommand.GET_LENGTH), Literal(u32(5)), Literal(u32(200))))>>
      [] body = "clamp to zero" ->
            <<NodeExpression(
                Clamp(ExprUser(UserCommand.GET_LENGTH), Literal(ZERO), Literal(ZERO)))>>

LoopStatement(kind, ss) ==
    CASE kind = "loop" -> Loop(ss \o <<NodeUser(UserCommand.BLIT)>>)
      [] kind = "for" -> For("i", Literal(u32(2)), ss \o <<NodeUser(UserCommand.BLIT)>>)
      [] kind = "for in loop" ->
            Loop(<<For("i", Literal(u32(2)), ss), NodeUser(UserCommand.BLIT)>>)

LoopSource(u) ==
    Statements(<<NewVarAssignment("a", Literal(u32(10))),
                 NewVarAssignment("b", Literal(u32(20))),
                 LoopStatement(u.kind, LoopBody(u.body))>>)

InitLoop ==
    /\ unit \in [kind : LoopKinds, body : LoopBodies]
    /\ overflow_checks = TRUE
    /\ out = NoProgram
    /\ state = NoState
    /\ host = Host_new(MaxTake)
    /\ state2 = NoState
    /\ host2 = Host_new(0)

\* Program::from_source on the source with the loop
CompileLoop ==
    /\ out = NoProgram
    /\ out' = from_source(LoopSource(unit))
    /\ UNCHANGED <<state, host, state2, host2, overflow_checks, unit>>

NextLoop == CompileLoop \/ StartDefault \/ RunCall \/ RunStep

SpecLoop == InitLoop /\ [][NextLoop]_vars

\* the address after `let a = 10; let b = 20;`, where the loop statement
\* starts
LoopAddress ==
    Len(Program_push(Program_push(Program_new, u32(10)), u32(20)).code)

\* the address of the first instruction of a for body whose statement starts
\* at `start`: after the push of the count and the JZ of repeat
ForBodyAddress(start) ==
    start + Len(Program_push(Program_new, u32(2)).code) + 3

\* the bodies of the program: the address of the first instruction and the
\* depth of the stack on first entry (a and b, and the counter of a for)
LoopEntries ==
    CASE unit.kind = "loop" -> {[pc |-> LoopAddress, depth |-> 2]}
      [] unit.kind = "for" -> {[pc |-> ForBodyAddress(LoopAddress), depth |-> 3]}
      [] unit.kind = "for in loop" ->
            {[pc |-> LoopAddress, depth |-> 2],
             [pc |-> ForBodyAddress(LoopAddress), depth |-> 3]}

\* at the first instruction of a body the stack is as deep as on first entry
SameDepth ==
    \A e \in LoopEntries :
        (state.status = "running" /\ state.pc = e.pc) => Len(state.stack) = e.depth

\* C36: in a run of a program that Program::from_source returned, the stack
\* is as deep at the first instruction of a `loop` or `for` body in every
\* iteration as it was in the first.
C36_LoopDepth == (out # NoProgram => out.err = "") /\ SameDepth

\* on a strip of one pixel, `loop { clamp(get_length, 0, 0); blit }` has
\* shown its first frame and is back at the first instruction of the body
C36_Witness ==
    /\ unit = [kind |-> "loop", body |-> "clamp to zero"]
    /\ Len(state.vm.strip) = 1
    /\ Len(host.outcomes) = 1
    /\ host.outcomes[1].tag = "BLIT"
    /\ state.status = "running"
    /\ state.pc = LoopAddress
    /\ state.instruction_count > 2

\* the loops whose body has no clamp with a bound of zero
LoopDepthWithoutZeroBound ==
    unit.body # "clamp to zero" => C36_LoopDepth

\* the third iteration of `for(i = 2) { let c = random(a) }` inside a loop
\* is at the first instruction of the for body
LoopDepthReached ==
    /\ unit = [kind |-> "for in loop", body |-> "random"]
    /\ Len(host.outcomes) = 1
    /\ state.status = "running"
    /\ state.pc = ForBodyAddress(LoopAddress)
    /\ state.stack = <<u32(10), u32(20), u32(2)>>

(***************************************************************************)
(* A scope with many variables, assembled statement by statement: the root *)
(* scope declares variables one after another, then a statement reads or   *)
(* assigns the first of them, and the teardown ends the compilation.  Here *)
(* `out` holds the assembler's program and scope between two statements    *)
(* and `unit` how far the source has been assembled.                       *)
(***************************************************************************)
MaxVars == 272       \* variables declared in one scope

\* the i-th variable of the scope
WideName(i) == "v" \o ToString(i)

InitWide ==
    /\ unit = [phase |-> "scope", use |-> "none"]
    /\ overflow_checks = TRUE
    /\ out = [program |-> Program_new, scope |-> Scope_new]
    /\ state = NoState
    /\ host = Host_new(0)
    /\ state2 = NoState
    /\ host2 = Host_new(0)

\* the variables the root scope has declared
Declared == Len(out.scope[1].variables)

\* the next statement of the source is `let v = <literal>`
WideDeclare ==
    /\ unit.phase = "scope"
    /\ out.program.err = ""
    /\ Declared < MaxVars
    /\ out' = Node_assemble(
                  NewVarAssignment(WideName(Declared + 1), Literal(u32((Declared + 1) % 256))),
                  out)
    /\ UNCHANGED <<state, host, state2, host2, overflow_checks, unit>>

\* the last statement of the source is the read `v1` or the assignment
\* `v1 = 7`
WideStatement ==
    /\ unit.phase = "scope"
    /\ out.program.err = ""
    /\ Declared > 0
    /\ \/ /\ out' = Node_assemble(NodeExpression(Load(WideName(1))), out)
          /\ unit' = [phase |-> "used", use |-> "read"]
       \/ /\ out' = Node_assemble(VarAssignment(WideName(1), Literal(u32(7))), out)
          /\ unit' = [phase |-> "used", use |-> "assign"]
    /\ UNCHANGED <<state, host, state2, host2, overflow_checks>>

\* the source ends: scope.assemble_teardown(&mut p)
WideTeardown ==
    /\ unit.phase \in {"scope", "used"}
    /\ out.program.err = ""
    /\ out' = assemble_teardown(out)
    /\ unit' = [unit EXCEPT !.phase = "done"]
    /\ UNCHANGED <<state, host, state2, host2, overflow_checks>>

NextWide == WideDeclare \/ WideStatement \/ WideTeardown

SpecWide == InitWide /\ [][NextWide]_vars

\* the code ends with the bytes `tail`
EndsWith(tail) ==
    /\ Len(out.program.code) >= Len(tail)
    /\ SubSeq(out.program.code, Len(out.program.code) - Len(tail) + 1, Len(out.program.code))
           = tail

\* the builder call with the immediate `n` either does not fit and fails, or
\* has emitted the bytes `tail`
FitsOrFails(n, tail) ==
    IF n > POSTFIX_MAX
    THEN out.program.err = "PostfixLimit"
    ELSE out.program.err = "" /\ EndsWith(tail)

\* the read of the first variable: it is Declared - 1 below the top
ReadImmediate ==
    (unit.phase = "used" /\ unit.use = "read")
    => FitsOrFails(Declared - 1, <<Prefix.PEEK + (Declared - 1), Prefix.POP + 1>>)

\* the assignment to the first variable: with the value on top it is
\* Declared below the top
AssignImmediate ==
    (unit.phase = "used" /\ unit.use = "assign")
    => FitsOrFails(Declared, <<Prefix.PUSHB + 1, 7, Prefix.SWAP + Declared, Prefix.POP + 1>>)

\* the teardown of the scope pops the Declared variables
TeardownImmediate ==
    (unit.phase = "done" /\ unit.use = "none" /\ Declared > 0)
    => FitsOrFails(Declared, <<Prefix.POP + Declared>>)

\* C37: every POP, PEEK and SWAP the compiler emits for a scope carries the
\* true count or depth, and where that does not fit the postfix, counts and
\* depths of 256 and more included, the compilation fails with PostfixLimit.
C37_TrueImmediate == ReadImmediate /\ AssignImmediate /\ TeardownImmediate

\* a source with 257 variables and a read of the first has compiled
\* without an error
C37_Witness ==
    /\ unit = [phase |-> "done", use |-> "read"]
    /\ Declared = 257
    /\ out.program.err = ""

\* the scopes with fewer than 256 variables
NarrowImmediate == Declared < 256 => C37_TrueImmediate

\* a scope of 15 variables with an assignment to the first has compiled,
\* and one of 17 has failed
NarrowReached ==
    \/ unit = [phase |-> "done", use |-> "assign"] /\ Declared = 15 /\ out.program.err = ""
    \/ unit = [phase |-> "used", use |-> "read"] /\ Declared = 200
           /\ out.program.err = "PostfixLimit"

(***************************************************************************)
(* The calls that follow a run() that returned Ended.                      *)
(***************************************************************************)
\* the last run() call on the state returned Ended; the state holds that
\* outcome until the next return
AfterEnded == state.status \in {"idle", "running"} /\ state.outcome = Ended

AfterEndedStep ==
    (AfterEnded /\ state' # state)
    => /\ state'.pc = state.pc
       /\ state'.stack = state.stack
       /\ state'.instruction_count = state.instruction_count
       /\ state'.vm = state.vm
       /\ state'.outcome = Ended
       /\ state.status = "running"
             => /\ Returns(Ended)
                /\ Iterator_next(state'.outcome).item = "None"

\* C38: once run() has returned Ended, every later run() call on the same
\* state returns Ended again (next() gives None) and leaves pc, the stack,
\* the instruction count and the strip as they were.
C38_EndedAbsorbing == [][AfterEndedStep]_vars

\* PUSHB 0 and the undecodable byte 0xB0 under a global and a local limit
\* of 2: three calls have returned Ended, with pc on the byte
C38_Witness ==
    /\ unit = <<16, 176>>
    /\ state.config = StateConfig(2, 2)
    /\ state.status = "idle"
    /\ host.outcomes = <<Ended, Ended, Ended>>
    /\ state.pc = 1
    /\ state.stack = <<ZERO>>
    /\ state.instruction_count = 1

====
